---- MODULE Spec2Model ----
(***************************************************************************)
(* State-machine model of the documentation-assistant backend              *)
(* (src/backend): the in-memory document store and its HTTP routes, the    *)
(* translation fallback chain, the documentation drift detector and the    *)
(* summarisation fallback.                                                 *)
(*                                                                         *)
(* Each subsystem has its own specification over the shared variables:     *)
(*   SpecDocs     document store + /api/docs routes        (docs.py)       *)
(*   SpecTrans    translate_content and its fallback chain (multilingual.py)*)
(*   SpecDrift    DocDriftDetector and /detect-drift       (maintenance.py) *)
(*   SpecSummary  HuggingFaceClient._fallback_summary      (ai.py)          *)
(*   SpecMcp      MCPClient.get_context                    (mcp_client.py)  *)
(*   SpecRoutes   dispatch of the /api/docs router         (docs.py)        *)
(*   SpecProgress TutorialManager.update_progress          (onboarding.py)  *)
(*   SpecNotify   ChangeMonitor.add_notification           (maintenance.py) *)
(*   SpecParse    PythonParser.parse_python                (parsing.py)     *)
(*   SpecSearch   POST /api/docs/search                    (docs.py)        *)
(*   SpecOnboarding   the progress routes                  (onboarding.py)  *)
(*   SpecNotifyRoute  POST /notify-change                  (maintenance.py) *)
(*   SpecWebhook, SpecWebhookFair  POST /webhook/github    (maintenance.py) *)
(* The other subsystems' variables keep their initial value there.         *)
(***************************************************************************)
EXTENDS Integers, Sequences, FiniteSets, Bags, TLC

VARIABLES
    documents,      \* DocumentManager.documents : doc id -> Document
    doc_counter,    \* DocumentManager.doc_counter
    resp,           \* last HTTP response of the /api/docs routes
    created_req,    \* history: id -> CreateDocumentRequest, for ids created
                    \*          and neither updated nor deleted since
    deleted,        \* history: ids for which delete_document returned True
    hf_key,         \* settings.huggingface_api_key is set
    google_key,     \* settings.google_translate_api_key is set
    translation_memory, \* TranslationManager.translation_memory
    inflight,       \* bag of translate_content calls suspended at an await
    t_count,        \* number of translate requests received so far
    tresp,          \* last response of POST /api/multilingual/translate
    served,         \* history: (source, target, content) -> number of
                    \*          translate requests answered with status 200
    fs,             \* the file system: existing path -> modification time
    code_hashes,    \* DocDriftDetector.code_hashes
    doc_hashes,     \* DocDriftDetector.doc_hashes
    dresp,          \* last response of POST /api/maintenance/detect-drift
    s_text,         \* the text handed to HuggingFaceClient._fallback_summary
    s_out,          \* summary_type -> the summary returned for s_text, if any
    m_enabled,      \* MCPClient.enabled
    m_call,         \* the last call of MCPClient.get_context and what the
                    \* MCP server did with it
    m_ret,          \* what that call returned or raised
    r_resp,         \* last response of a GET request to the /api/docs router
    user_progress,  \* TutorialManager.user_progress : key -> UserProgress
    p_last,         \* the last call of TutorialManager.update_progress
    notifications,  \* ChangeMonitor.notifications
    n_calls,        \* number of calls of ChangeMonitor.add_notification
    parse_code,     \* the source handed to PythonParser.parse_python
    parse_result,   \* what parse_python returned or raised for it
    sresp,          \* last response of POST /api/docs/search, with the
                    \* store it was computed on (history)
    o_resp,         \* last response of a route of the onboarding router
    o_hist,         \* history: (user_id, tutorial_id) -> step_id of the most
                    \*          recent complete-step request answered 200
    n_resp,         \* last response of POST /api/maintenance/notify-change
    w_tasks,        \* background tasks added by the webhook and not yet run
    w_resp,         \* last response of POST /api/maintenance/webhook/github
    w_log           \* history: the add_notification tasks that have run

docVars == <<documents, doc_counter, resp, created_req, deleted>>

transVars == <<hf_key, google_key, translation_memory, inflight, t_count, tresp,
               served>>

driftVars == <<fs, code_hashes, doc_hashes, dresp>>

vars == <<documents, doc_counter, resp, created_req, deleted,
          hf_key, google_key, translation_memory, inflight, t_count, tresp,
          served,
          fs, code_hashes, doc_hashes, dresp, s_text, s_out,
          m_enabled, m_call, m_ret, r_resp, user_progress, p_last,
          notifications, n_calls, parse_code, parse_result,
          sresp, o_resp, o_hist, n_resp, w_tasks, w_resp, w_log>>

sumVars == <<s_text, s_out>>

mcpVars == <<m_enabled, m_call, m_ret>>

routeVars == <<r_resp>>

progVars == <<user_progress, p_last>>

notifVars == <<notifications, n_calls>>

parseVars == <<parse_code, parse_result>>

searchVars == <<sresp>>

onbVars == <<o_resp, o_hist>>

nresVars == <<n_resp>>

hookVars == <<w_tasks, w_resp, w_log>>

nonDocVars == <<transVars, driftVars, sumVars, mcpVars, routeVars, progVars,
                notifVars, parseVars,
    searchVars, onbVars, nresVars, hookVars>>

nonTransVars == <<docVars, driftVars, sumVars, mcpVars, routeVars, progVars,
                  notifVars, parseVars,
    searchVars, onbVars, nresVars, hookVars>>

nonDriftVars == <<docVars, transVars, sumVars, mcpVars, routeVars, progVars,
                  notifVars, parseVars,
    searchVars, onbVars, nresVars, hookVars>>

nonSumVars == <<docVars, transVars, driftVars, mcpVars, routeVars, progVars,
                notifVars, parseVars,
    searchVars, onbVars, nresVars, hookVars>>

nonMcpVars == <<docVars, transVars, driftVars, sumVars, routeVars, progVars,
                notifVars, parseVars,
    searchVars, onbVars, nresVars, hookVars>>

nonRouteVars == <<docVars, transVars, driftVars, sumVars, mcpVars, progVars,
                  notifVars, parseVars,
    searchVars, onbVars, nresVars, hookVars>>

nonProgVars == <<docVars, transVars, driftVars, sumVars, mcpVars, routeVars,
                 notifVars, parseVars,
    searchVars, onbVars, nresVars, hookVars>>

nonNotifVars == <<docVars, transVars, driftVars, sumVars, mcpVars, routeVars,
                  progVars, parseVars,
    searchVars, onbVars, nresVars, hookVars>>

nonParseVars == <<docVars, transVars, driftVars, sumVars, mcpVars, routeVars,
                  progVars, notifVars,
    searchVars, onbVars, nresVars, hookVars>>

nonSearchVars == <<docVars, transVars, driftVars, sumVars, mcpVars, routeVars,
                   progVars, notifVars, parseVars, onbVars, nresVars, hookVars>>

nonOnbVars == <<docVars, transVars, driftVars, sumVars, mcpVars, routeVars,
                notifVars, parseVars, searchVars, nresVars, hookVars>>

nonNresVars == <<docVars, transVars, driftVars, sumVars, mcpVars, routeVars,
                 progVars, parseVars, searchVars, onbVars, hookVars>>

nonHookVars == <<docVars, transVars, driftVars, sumVars, mcpVars, routeVars,
                 progVars, parseVars, searchVars, onbVars, nresVars>>

(***************************************************************************)
(* Bounds                                                                  *)
(***************************************************************************)
MaxDocs == 2        \* create_document is called at most MaxDocs times

MaxTranslations == 2    \* translate requests received in one run

MaxInflight == 2        \* translate requests suspended at the same time

MaxFiles == 2           \* length of code_files in a detect-drift request

MaxUpdates == 2     \* update_progress is called at most MaxUpdates times

MaxNotifications == 2   \* add_notification is called at most this often

MaxStmts == 2       \* a parsed source has at most MaxStmts statements

MaxWebhooks == 2    \* webhook requests received in one run

MaxCommits == 2     \* commits in the payload of one webhook request

MaxHead == 6            \* leading sentences of a text that are drawn freely

(***************************************************************************)
(* Optional[T]: None is the empty sequence, a value v is <<v>>.            *)
(***************************************************************************)
None == <<>>

Some(v) == <<v>>

IsNone(o) == Len(o) = 0

Val(o) == o[1]

(***************************************************************************)
(* docs.py : requests                                                      *)
(* A document id n stands for the string "doc_<n>".                        *)
(***************************************************************************)
Times == {1, 2}     \* values datetime.now() may return

CreateRequests ==
    { [title |-> "Guide", content |-> "alpha", content_type |-> "markdown",
       language |-> "en", tags |-> <<>>, author |-> "anonymous",
       version |-> "1.0.0"],
      [title |-> "Manual", content |-> "beta", content_type |-> "html",
       language |-> "es", tags |-> <<"api">>, author |-> "ann",
       version |-> "2.0.0"] }

UpdateRequests ==
    { [title |-> None, content |-> None, tags |-> None,
       version |-> None, status |-> None],
      [title |-> Some("Handbook"), content |-> None, tags |-> None,
       version |-> None, status |-> None],
      [title |-> None, content |-> Some("gamma"), tags |-> Some(<<>>),
       version |-> Some("3.0.0"), status |-> Some("published")] }

DocIds == 1 .. (MaxDocs + 1)    \* ids a client may send, stored or not

(***************************************************************************)
(* docs.py : DocumentManager                                               *)
(***************************************************************************)
create_document_reuse(docs, counter, request, now) ==
    \* variant: id derived from the number of stored documents
    LET doc_id == Cardinality(DOMAIN docs) + 1
        document == [doc_id |-> doc_id, title |-> request.title,
                     content |-> request.content,
                     content_type |-> request.content_type,
                     language |-> request.language, tags |-> request.tags,
                     created_at |-> now, updated_at |-> now,
                     author |-> request.author, version |-> request.version,
                     status |-> "draft"]
    IN [documents |-> [d \in DOMAIN docs \cup {doc_id} |->
                          IF d = doc_id THEN document ELSE docs[d]],
        doc_counter |-> counter + 1,
        document |-> document]

create_document_lang(docs, counter, request, now) ==
    \* variant: language left at its default
    LET doc_id == counter + 1
        document == [doc_id |-> doc_id, title |-> request.title,
                     content |-> request.content,
                     content_type |-> request.content_type,
                     language |-> "en", tags |-> request.tags,
                     created_at |-> now, updated_at |-> now,
                     author |-> request.author, version |-> request.version,
                     status |-> "draft"]
    IN [documents |-> [d \in DOMAIN docs \cup {doc_id} |->
                          IF d = doc_id THEN document ELSE docs[d]],
        doc_counter |-> counter + 1,
        document |-> document]

create_document(docs, counter, request, now) ==
    LET doc_id == counter + 1
        document == [doc_id |-> doc_id, title |-> request.title,
                     content |-> request.content,
                     content_type |-> request.content_type,
                     language |-> request.language, tags |-> request.tags,
                     created_at |-> now, updated_at |-> now,
                     author |-> request.author, version |-> request.version,
                     status |-> "draft"]
    IN [documents |-> [d \in DOMAIN docs \cup {doc_id} |->
                          IF d = doc_id THEN document ELSE docs[d]],
        doc_counter |-> counter + 1,
        document |-> document]

get_document(docs, doc_id) ==
    IF doc_id \in DOMAIN docs THEN Some(docs[doc_id]) ELSE None

update_document_status(docs, doc_id, request, now) ==
    \* variant: an update always sends the document back to "draft"
    IF doc_id \notin DOMAIN docs
    THEN [documents |-> docs, document |-> None]
    ELSE LET old == docs[doc_id]
             new == [old EXCEPT
                       !.title = IF IsNone(request.title) THEN @ ELSE Val(request.title),
                       !.content = IF IsNone(request.content) THEN @ ELSE Val(request.content),
                       !.tags = IF IsNone(request.tags) THEN @ ELSE Val(request.tags),
                       !.version = IF IsNone(request.version) THEN @ ELSE Val(request.version),
                       !.status = IF IsNone(request.status) THEN "draft" ELSE Val(request.status),
                       !.updated_at = now]
         IN [documents |-> [docs EXCEPT ![doc_id] = new],
             document |-> Some(new)]

update_document(docs, doc_id, request, now) ==
    IF doc_id \notin DOMAIN docs
    THEN [documents |-> docs, document |-> None]
    ELSE LET old == docs[doc_id]
             new == [old EXCEPT
                       !.title = IF IsNone(request.title) THEN @ ELSE Val(request.title),
                       !.content = IF IsNone(request.content) THEN @ ELSE Val(request.content),
                       !.tags = IF IsNone(request.tags) THEN @ ELSE Val(request.tags),
                       !.version = IF IsNone(request.version) THEN @ ELSE Val(request.version),
                       !.status = IF IsNone(request.status) THEN @ ELSE Val(request.status),
                       !.updated_at = now]
         IN [documents |-> [docs EXCEPT ![doc_id] = new],
             document |-> Some(new)]

delete_document_clear(docs, doc_id) ==
    \* variant: a missing id empties the store
    IF doc_id \in DOMAIN docs
    THEN [documents |-> [d \in DOMAIN docs \ {doc_id} |-> docs[d]],
          success |-> TRUE]
    ELSE [documents |-> << >>, success |-> FALSE]

delete_document(docs, doc_id) ==
    IF doc_id \in DOMAIN docs
    THEN [documents |-> [d \in DOMAIN docs \ {doc_id} |-> docs[d]],
          success |-> TRUE]
    ELSE [documents |-> docs, success |-> FALSE]

(***************************************************************************)
(* docs.py : routes.  Every handler body runs inside                       *)
(*     try: ... except Exception as e: raise HTTPException(500, <msg>)     *)
(* and HTTPException is itself an Exception, so an HTTPException raised    *)
(* in the body is caught by the handler's own except clause.               *)
(***************************************************************************)
Returned(body) == [kind |-> "return", status |-> 200, detail |-> ""]

Raised(status, detail) == [kind |-> "raise", status |-> status, detail |-> detail]

ExceptException(outcome, message) ==
    IF outcome.kind = "raise"
    THEN [status |-> 500, detail |-> message]
    ELSE [status |-> outcome.status, detail |-> outcome.detail]

RemoveKey(f, k) == [x \in DOMAIN f \ {k} |-> f[x]]

create_document_route(request, now) ==
    LET r == create_document(documents, doc_counter, request, now)
        http == ExceptException(Returned(r.document), "Failed to create document")
    IN /\ doc_counter < MaxDocs
       /\ documents' = r.documents
       /\ doc_counter' = r.doc_counter
       /\ resp' = [route |-> "POST", doc_id |-> r.document.doc_id,
                   request |-> Some(request), found |-> TRUE,
                   status |-> http.status, detail |-> http.detail,
                   document |-> Some(r.document)]
       /\ created_req' = [d \in DOMAIN created_req \cup {r.document.doc_id} |->
                             IF d = r.document.doc_id THEN request
                             ELSE created_req[d]]
       /\ deleted' = deleted
       /\ UNCHANGED nonDocVars

get_document_route(doc_id) ==
    LET document == get_document(documents, doc_id)
        http == ExceptException(
                    IF IsNone(document)
                    THEN Raised(404, "Document not found")
                    ELSE Returned(document),
                    "Failed to get document")
    IN /\ resp' = [route |-> "GET", doc_id |-> doc_id, request |-> None,
                   found |-> ~IsNone(document),
                   status |-> http.status, detail |-> http.detail,
                   document |-> document]
       /\ UNCHANGED <<documents, doc_counter, created_req, deleted>>
       /\ UNCHANGED nonDocVars

update_document_route(doc_id, request, now) ==
    LET r == update_document(documents, doc_id, request, now)
        http == ExceptException(
                    IF IsNone(r.document)
                    THEN Raised(404, "Document not found")
                    ELSE Returned(r.document),
                    "Failed to update document")
    IN /\ documents' = r.documents
       /\ resp' = [route |-> "PUT", doc_id |-> doc_id, request |-> Some(request),
                   found |-> ~IsNone(r.document),
                   status |-> http.status, detail |-> http.detail,
                   document |-> r.document]
       /\ created_req' = IF doc_id \in DOMAIN created_req
                         THEN RemoveKey(created_req, doc_id) ELSE created_req
       /\ UNCHANGED <<doc_counter, deleted>>
       /\ UNCHANGED nonDocVars

delete_document_route(doc_id) ==
    LET r == delete_document(documents, doc_id)
        http == ExceptException(
                    IF ~r.success
                    THEN Raised(404, "Document not found")
                    ELSE Returned(r.success),
                    "Failed to delete document")
    IN /\ documents' = r.documents
       /\ resp' = [route |-> "DELETE", doc_id |-> doc_id, request |-> None,
                   found |-> r.success,
                   status |-> http.status, detail |-> http.detail,
                   document |-> None]
       /\ created_req' = IF doc_id \in DOMAIN created_req
                         THEN RemoveKey(created_req, doc_id) ELSE created_req
       /\ deleted' = IF r.success THEN deleted \cup {doc_id} ELSE deleted
       /\ UNCHANGED doc_counter
       /\ UNCHANGED nonDocVars

InitDocs ==
    /\ documents = << >>
    /\ doc_counter = 0
    /\ resp = [route |-> "none", doc_id |-> 0, request |-> None,
               found |-> FALSE, status |-> 0, detail |-> "",
               document |-> None]
    /\ created_req = << >>
    /\ deleted = {}

NextDocs ==
    \/ \E request \in CreateRequests, now \in Times :
          create_document_route(request, now)
    \/ \E doc_id \in DocIds : get_document_route(doc_id)
    \/ \E doc_id \in DocIds, request \in UpdateRequests, now \in Times :
          update_document_route(doc_id, request, now)
    \/ \E doc_id \in DocIds : delete_document_route(doc_id)


(***************************************************************************)
(* multilingual.py : text.  A text is a sequence of tokens: a word, or     *)
(* " " for one whitespace character; words are separated by at least one   *)
(* " ".  "Hello" is <<"Hello">>, "xyzzy  plugh" is                         *)
(* <<"xyzzy", " ", " ", "plugh">>.                                        *)
(***************************************************************************)
Hello == <<"Hello">>

Xyzzy == <<"xyzzy">>

XyzzyPlugh == <<"xyzzy", " ", " ", "plugh">>

Plugh == <<"plugh">>

Contents == {Hello, Xyzzy, XyzzyPlugh, Plugh}

ProviderText == <<"Saludos">>   \* a translation an external provider returns

\* str.lower() on a token
Lower(tok) ==
    CASE tok = "Hello" -> "hello"
      [] tok = "World" -> "world"
      [] tok = "Thank" -> "thank"
      [] tok = "Hola" -> "hola"
      [] tok = "Mundo" -> "mundo"
      [] tok = "Gracias" -> "gracias"
      [] tok = "Saludos" -> "saludos"
      [] OTHER -> tok

\* str.upper() on a language code
Upper(lang) ==
    CASE lang = "es" -> "ES"
      [] lang = "en" -> "EN"
      [] lang = "fr" -> "FR"
      [] OTHER -> lang

\* hash(content): a 64-bit value computed from the text, not injective.
Hash(content) ==
    CASE content = Hello -> 1
      [] content = Xyzzy -> 2
      [] content = XyzzyPlugh -> 3
      [] content = Plugh -> 1
      [] OTHER -> 0

\* the keys of self.supported_languages
supported_languages == {"en", "es", "fr", "de", "zh", "ja", "ko", "ar", "hi", "pt"}

\* _simple_language_detection: "es" and "fr" need more than three indicator
\* substrings; none of Contents has them.
simple_language_detection(content) == "en"

(***************************************************************************)
(* multilingual.py : _enhanced_fallback_translate.  Of the inlined         *)
(* dictionaries the model keeps the language pairs and, for ("en","es"),   *)
(* three entries in source order; an entry's key is a token sequence.      *)
(***************************************************************************)
translations ==
    [ pair \in {<<"en", "es">>} |->
        << [eng |-> <<"Hello">>, tr |-> <<"Hola">>],
           [eng |-> <<"World">>, tr |-> <<"Mundo">>],
           [eng |-> <<"Thank", " ", "you">>, tr |-> <<"Gracias">>] >> ]

\* len(phrase.split())
WordCount(text) == Cardinality({i \in 1..Len(text) : text[i] # " "})

\* re.match of \b<pat>\b at position i, flags=re.IGNORECASE
MatchAt(text, i, pat) ==
    /\ i + Len(pat) - 1 <= Len(text)
    /\ \A j \in 1..Len(pat) : Lower(text[i + j - 1]) = Lower(pat[j])

RECURSIVE SubFrom(_, _, _, _)
SubFrom(text, i, pat, rep) ==
    IF i > Len(text) THEN <<>>
    ELSE IF MatchAt(text, i, pat)
         THEN rep \o SubFrom(text, i + Len(pat), pat, rep)
         ELSE <<text[i]>> \o SubFrom(text, i + 1, pat, rep)

\* re.sub(r'\b' + re.escape(pat) + r'\b', rep, text, flags=re.IGNORECASE)
ReSub(pat, rep, text) == SubFrom(text, 1, pat, rep)

\* the two substitution loops: entries i.. of the dictionary, restricted to
\* multi-word keys (multi = TRUE) or to single-word keys (multi = FALSE)
RECURSIVE SubLoop(_, _, _, _)
SubLoop(dict, i, multi, text) ==
    IF i > Len(dict) THEN text
    ELSE IF (WordCount(dict[i].eng) > 1) = multi
         THEN SubLoop(dict, i + 1, multi, ReSub(dict[i].eng, dict[i].tr, text))
         ELSE SubLoop(dict, i + 1, multi, text)

\* str.split(): the words of a text
Split(text) == SelectSeq(text, LAMBDA tok : tok # " ")

\* ' '.join(words)
RECURSIVE JoinSpace(_)
JoinSpace(words) ==
    IF Len(words) = 0 THEN <<>>
    ELSE IF Len(words) = 1 THEN <<words[1]>>
    ELSE <<words[1], " ">> \o JoinSpace(Tail(words))

\* translations[lang_pair][clean_word] if clean_word is a key, else the word
WordLookup(dict, word) ==
    LET clean_word == Lower(word)
        hits == {i \in 1..Len(dict) : dict[i].eng = <<clean_word>>}
    IN IF hits = {} THEN <<word>>
       ELSE dict[CHOOSE i \in hits : \A j \in hits : i >= j].tr

RECURSIVE WordByWord(_, _)
WordByWord(dict, words) ==
    IF Len(words) = 0 THEN <<>>
    ELSE <<WordLookup(dict, words[1])>> \o WordByWord(dict, Tail(words))

\* f"[{target_lang.upper()}] " as tokens
LangIndicator(target_lang) == <<"[", Upper(target_lang), "]", " ">>

\* ' '.join of translated words that may themselves be several tokens
RECURSIVE JoinSeqs(_)
JoinSeqs(seqs) ==
    IF Len(seqs) = 0 THEN <<>>
    ELSE IF Len(seqs) = 1 THEN seqs[1]
    ELSE seqs[1] \o <<" ">> \o JoinSeqs(Tail(seqs))

enhanced_fallback_translate_prefix(content, source_lang, target_lang) ==
    \* variant: the language indicator is added whenever nothing was translated
    LET lang_pair == <<source_lang, target_lang>>
    IN IF lang_pair \in DOMAIN translations
       THEN LET dict == translations[lang_pair]
                phrased == SubLoop(dict, 1, TRUE, content)
                translated == SubLoop(dict, 1, FALSE, phrased)
            IN IF translated = content
               THEN LangIndicator(target_lang) \o content
               ELSE translated
       ELSE LangIndicator(target_lang) \o content

enhanced_fallback_translate_nodict(content, source_lang, target_lang) ==
    \* variant: the single-word loop is skipped
    LET lang_pair == <<source_lang, target_lang>>
    IN IF lang_pair \in DOMAIN translations
       THEN LET dict == translations[lang_pair]
                translated == SubLoop(dict, 1, TRUE, content)
            IN IF translated = content
               THEN JoinSeqs(WordByWord(dict, Split(content)))
               ELSE translated
       ELSE LangIndicator(target_lang) \o content

enhanced_fallback_translate(content, source_lang, target_lang) ==
    LET lang_pair == <<source_lang, target_lang>>
    IN IF lang_pair \in DOMAIN translations
       THEN LET dict == translations[lang_pair]
                phrased == SubLoop(dict, 1, TRUE, content)
                translated == SubLoop(dict, 1, FALSE, phrased)
            IN IF translated = content
               THEN JoinSeqs(WordByWord(dict, Split(content)))
               ELSE translated
       ELSE LangIndicator(target_lang) \o content


(***************************************************************************)
(* multilingual.py : translate_content and _basic_translate.               *)
(* A call runs up to its first await on an external provider in one step   *)
(* (translate_begin) and is then resumed once per provider answer          *)
(* (translate_resume).  mcp_client.get_context is awaited before the       *)
(* chain; it reads and writes no TranslationManager state and its result   *)
(* is not used, so it is part of translate_begin.                          *)
(***************************************************************************)
TranslationRequest(content, source, target, context) ==
    [content |-> content, source_language |-> source,
     target_language |-> target, context |-> context]

\* the requests clients send: "xx" is a language code that is not supported,
\* a null context is allowed by TranslationRequest (context: Optional[str])
TranslationRequests ==
    { TranslationRequest(Hello, "en", "es", Some("")),
      TranslationRequest(Hello, "en", "es", None),
      TranslationRequest(Hello, "auto", "es", Some("")),
      TranslationRequest(Hello, "xx", "es", Some("")),
      TranslationRequest(Hello, "en", "xx", Some("")),
      TranslationRequest(Plugh, "en", "es", Some("")),
      TranslationRequest(Xyzzy, "en", "es", Some("")),
      TranslationRequest(XyzzyPlugh, "en", "es", Some("")),
      TranslationRequest(Xyzzy, "fr", "es", Some("")) }

\* what one awaited provider call yields
ProviderOutcomes == {"exception", "unusable", "echo", "text"}

\* `if translation and translation != content` on a provider's answer
Usable(outcome) == outcome = "text"

\* language pairs of model_mapping in _try_huggingface_translation
HFModelPairs ==
    {<<"en", t>> : t \in {"es", "fr", "de", "zh", "ja", "ko", "ar", "hi", "pt",
                          "ru", "it", "nl", "pl", "tr"}}
    \cup {<<s, "en">> : s \in {"es", "fr", "de", "zh", "ja", "ko", "ar", "hi",
                               "pt", "ru", "it", "nl", "pl", "tr"}}

\* the provider calls of _basic_translate in program order
Chain == <<"hf", "google", "libre1", "libre2", "libre3", "mymemory",
           "ai", "general1", "general2", "general3">>

\* is the call at position i of Chain made at all for this request
Called(i, source, target) ==
    CASE Chain[i] = "hf" -> hf_key /\ <<source, target>> \in HFModelPairs
      [] Chain[i] = "google" -> google_key
      [] Chain[i] \in {"ai", "general1", "general2", "general3"} -> hf_key
      [] OTHER -> TRUE

\* first call made at position >= i, or Len(Chain) + 1 if there is none
RECURSIVE NextCall(_, _, _)
NextCall(i, source, target) ==
    IF i > Len(Chain) THEN i
    ELSE IF Called(i, source, target) THEN i
    ELSE NextCall(i + 1, source, target)

memory_key(source, target, content) == <<source, target, Hash(content)>>

\* history kept with a response: the provider calls made for the request, in
\* the order they were made, each with whether its answer was usable
TranslateError(request, contacted) ==
    \* except Exception -> HTTPException(500, "Translation failed")
    [request |-> Some(request), status |-> 500, detail |-> "Translation failed",
     translated_content |-> None, via |-> "error", contacted |-> contacted]

TranslateOk(request, text, via, contacted) ==
    [request |-> Some(request), status |-> 200, detail |-> "",
     translated_content |-> Some(text), via |-> via, contacted |-> contacted]

\* one more request answered with status 200 for the triple
Serve(source, target, content) ==
    LET triple == <<source, target, content>>
    IN [t \in DOMAIN served \cup {triple} |->
          IF t = triple
          THEN (IF t \in DOMAIN served THEN served[t] ELSE 0) + 1
          ELSE served[t]]

translate_begin(request) ==
    LET actual_source_language ==
            IF request.source_language = "auto"
            THEN simple_language_detection(request.content)
            ELSE request.source_language
        key == memory_key(actual_source_language, request.target_language,
                          request.content)
        first == NextCall(1, actual_source_language, request.target_language)
    IN /\ t_count < MaxTranslations
       /\ t_count' = t_count + 1
       /\ IF \/ actual_source_language \notin supported_languages
             \/ request.target_language \notin supported_languages
          THEN \* HTTPException(400) raised inside the try, caught by except
               /\ tresp' = TranslateError(request, << >>)
               /\ UNCHANGED <<translation_memory, inflight, served>>
          ELSE IF key \in DOMAIN translation_memory
          THEN /\ translation_memory' =
                     [translation_memory EXCEPT ![key].usage_count = @ + 1]
               /\ tresp' = TranslateOk(request,
                               translation_memory[key].translated_text, "memory",
                               << >>)
               /\ served' = Serve(actual_source_language,
                                  request.target_language, request.content)
               /\ UNCHANGED inflight
          ELSE /\ BagCardinality(inflight) < MaxInflight
               /\ inflight' = inflight (+) SetToBag(
                     {[request |-> request, source |-> actual_source_language,
                       key |-> key, pc |-> first, contacted |-> << >>]})
               /\ UNCHANGED <<translation_memory, tresp, served>>
       /\ UNCHANGED <<hf_key, google_key>>
       /\ UNCHANGED nonTransVars

\* the end of translate_content: store in translation memory and respond
translate_finish(call, text, via, contacted) ==
    /\ inflight' = inflight (-) SetToBag({call})
    /\ IF IsNone(call.request.context)
       THEN \* TranslationMemory(context=None) fails validation (context: str)
            /\ tresp' = TranslateError(call.request, contacted)
            /\ UNCHANGED <<translation_memory, served>>
       ELSE /\ translation_memory' =
                 [k \in DOMAIN translation_memory \cup {call.key} |->
                    IF k = call.key
                    THEN [source_text |-> call.request.content,
                          source_language |-> call.source,
                          target_language |-> call.request.target_language,
                          translated_text |-> text,
                          usage_count |-> 1]
                    ELSE translation_memory[k]]
            /\ tresp' = TranslateOk(call.request, text, via, contacted)
            /\ served' = Serve(call.source, call.request.target_language,
                               call.request.content)
    /\ UNCHANGED <<hf_key, google_key, t_count>>
    /\ UNCHANGED nonTransVars

\* the provider family a chain position belongs to
Provider(pc) ==
    CASE pc \in {"libre1", "libre2", "libre3"} -> "libre"
      [] pc \in {"general1", "general2", "general3"} -> "general"
      [] OTHER -> pc

\* translate_resume that goes on to the next provider after a usable answer
translate_resume_nostop(call, outcome) ==
    LET target == call.request.target_language
        content == call.request.content
        fallback == enhanced_fallback_translate(content, call.source, target)
        next == NextCall(call.pc + 1, call.source, target)
        contacted == Append(call.contacted,
                            [at |-> Chain[call.pc], usable |-> Usable(outcome)])
    IN IF next > Len(Chain)
       THEN translate_finish(call, IF Usable(outcome) THEN ProviderText
                                   ELSE fallback,
                             IF Usable(outcome) THEN Provider(Chain[call.pc])
                             ELSE "dictionary", contacted)
       ELSE /\ inflight' = (inflight (-) SetToBag({call}))
                             (+) SetToBag({[call EXCEPT !.pc = next,
                                                       !.contacted = contacted]})
            /\ UNCHANGED <<hf_key, google_key, translation_memory, t_count, tresp,
                           served>>
            /\ UNCHANGED nonTransVars

translate_resume(call, outcome) ==
    LET target == call.request.target_language
        content == call.request.content
        fallback == enhanced_fallback_translate(content, call.source, target)
        next == NextCall(call.pc + 1, call.source, target)
        contacted == Append(call.contacted,
                            [at |-> Chain[call.pc], usable |-> Usable(outcome)])
    IN IF Usable(outcome)
       THEN translate_finish(call, ProviderText, Provider(Chain[call.pc]),
                             contacted)
       ELSE IF Chain[call.pc] = "ai" /\ outcome = "exception"
       THEN \* except clause of _ai_powered_fallback
            translate_finish(call, fallback, "dictionary", contacted)
       ELSE IF next > Len(Chain)
       THEN \* no provider left: _ai_powered_fallback without key, or step 6
            translate_finish(call, fallback, "dictionary", contacted)
       ELSE /\ inflight' = (inflight (-) SetToBag({call}))
                             (+) SetToBag({[call EXCEPT !.pc = next,
                                                       !.contacted = contacted]})
            /\ UNCHANGED <<hf_key, google_key, translation_memory, t_count, tresp,
                           served>>
            /\ UNCHANGED nonTransVars

InitTransVars ==
    /\ hf_key = FALSE
    /\ google_key = FALSE
    /\ translation_memory = << >>
    /\ inflight = EmptyBag
    /\ t_count = 0
    /\ tresp = [request |-> None, status |-> 0, detail |-> "",
                translated_content |-> None, via |-> "none", contacted |-> << >>]
    /\ served = << >>

InitTrans ==
    /\ hf_key \in BOOLEAN
    /\ google_key \in BOOLEAN
    /\ translation_memory = << >>
    /\ inflight = EmptyBag
    /\ t_count = 0
    /\ tresp = [request |-> None, status |-> 0, detail |-> "",
                translated_content |-> None, via |-> "none", contacted |-> << >>]
    /\ served = << >>

NextTrans ==
    \/ \E request \in TranslationRequests : translate_begin(request)
    \/ \E call \in BagToSet(inflight), outcome \in ProviderOutcomes :
          translate_resume(call, outcome)


(***************************************************************************)
(* maintenance.py : DocDriftDetector.  A path is a record of its directory *)
(* prefix, the stem of its last component and its extension:               *)
(* "src/a.py" is [dir |-> "src/", stem |-> "a", ext |-> ".py"].            *)
(***************************************************************************)
Path(dir, stem, ext) == [dir |-> dir, stem |-> stem, ext |-> ext]

FileA == Path("src/", "a", ".py")

FileB == Path("", "b", ".py")

\* the paths that may exist; every other path does not exist
Paths == {FileA, FileB, Path("src/", "a", ".md"),
          Path("", "README", ".md"), Path("docs/", "a", ".md")}

\* modification times (os.path.getmtime), in seconds
MTimes == {0, 86400, 86401}

OutdatedAfter == 86400      \* 24 hours in seconds

\* os.path.exists
Exists(files, path) == path \in DOMAIN files

\* os.path.getmtime
getmtime(files, path) == files[path]

\* the candidate documentation files of _find_corresponding_doc, in order
possible_docs(code_file) ==
    << Path(code_file.dir, code_file.stem, ".md"),
       Path(code_file.dir, code_file.stem, ".rst"),
       Path(code_file.dir, code_file.stem, ".txt"),
       Path("", "README", ".md"),
       Path("docs/", code_file.stem, ".md") >>

find_corresponding_doc(files, code_file) ==
    LET docs == possible_docs(code_file)
        found == {i \in 1..Len(docs) : Exists(files, docs[i])}
    IN IF found = {} THEN None
       ELSE Some(docs[CHOOSE i \in found : \A j \in found : i <= j])

is_doc_outdated_geq(files, code_file, doc_file) ==
    \* variant: a documentation file exactly one day older counts as outdated
    getmtime(files, code_file) - getmtime(files, doc_file) >= OutdatedAfter

is_doc_outdated(files, code_file, doc_file) ==
    getmtime(files, code_file) - getmtime(files, doc_file) > OutdatedAfter

DriftRecord(files, code_file, doc_file, drift_type, severity) ==
    [file_path |-> code_file, doc_file |-> doc_file,
     drift_type |-> drift_type, severity |-> severity,
     last_modified |-> getmtime(files, code_file)]

drift_entries_dangling(files, code_file) ==
    \* variant: the else branch belongs to the inner if
    IF ~Exists(files, code_file) THEN <<>>
    ELSE LET doc_file == find_corresponding_doc(files, code_file)
         IN IF ~IsNone(doc_file) /\ Exists(files, Val(doc_file))
            THEN IF is_doc_outdated(files, code_file, Val(doc_file))
                 THEN <<DriftRecord(files, code_file, doc_file, "outdated", "high")>>
                 ELSE <<DriftRecord(files, code_file, None, "missing", "medium")>>
            ELSE <<>>

\* one iteration of the loop "for code_file in code_files" of detect_drift:
\* the records it appends to drifted_files
drift_entries(files, code_file) ==
    IF ~Exists(files, code_file) THEN <<>>
    ELSE LET doc_file == find_corresponding_doc(files, code_file)
         IN IF ~IsNone(doc_file) /\ Exists(files, Val(doc_file))
            THEN IF is_doc_outdated(files, code_file, Val(doc_file))
                 THEN <<DriftRecord(files, code_file, doc_file, "outdated", "high")>>
                 ELSE <<>>
            ELSE <<DriftRecord(files, code_file, None, "missing", "medium")>>

RECURSIVE drift_loop(_, _)
drift_loop(files, code_files) ==
    IF Len(code_files) = 0 THEN <<>>
    ELSE drift_entries(files, code_files[1]) \o drift_loop(files, Tail(code_files))

\* the hash loops: self.<x>_hashes[file_path] = calculate_file_hash(file_path)
\* for the files that exist; the digest itself is not modelled
record_hashes(hashes, files, file_list) ==
    LET hashed == {file_list[i] : i \in {j \in 1..Len(file_list) :
                                             Exists(files, file_list[j])}}
    IN [path \in DOMAIN hashes \cup hashed |->
           IF path \in hashed THEN "sha256" ELSE hashes[path]]

\* drift_score = len(drifted_files) / total_files, kept as a fraction
detect_drift(files, code_files, doc_files) ==
    LET drifted_files == drift_loop(files, code_files)
        total_files == Len(code_files) + Len(doc_files)
    IN [total_files |-> total_files,
        drifted_files |-> drifted_files,
        drift_score |-> IF total_files > 0
                        THEN [num |-> Len(drifted_files), den |-> total_files]
                        ELSE [num |-> 0, den |-> 1]]

\* the recommendations of the /detect-drift route, as the set of conditions met
recommendations(result) ==
    (IF 10 * result.drift_score.num > 3 * result.drift_score.den
     THEN {"high drift"} ELSE {})
    \cup (IF \E i \in 1..Len(result.drifted_files) :
                result.drifted_files[i].drift_type = "missing"
          THEN {"missing docs"} ELSE {})
    \cup (IF \E i \in 1..Len(result.drifted_files) :
                result.drifted_files[i].drift_type = "outdated"
          THEN {"outdated docs"} ELSE {})

RECURSIVE SeqsUpTo(_, _)
SeqsUpTo(S, n) ==
    IF n = 0 THEN {<<>>}
    ELSE LET shorter == SeqsUpTo(S, n - 1)
         IN shorter \cup {Append(q, x) : q \in shorter, x \in S}

CodeFileLists == SeqsUpTo({FileA, FileB}, MaxFiles)

DocFileLists == {<<>>, <<Path("src/", "a", ".md")>>}

detect_documentation_drift(code_files, doc_files) ==
    LET result == detect_drift(fs, code_files, doc_files)
    IN /\ code_hashes' = record_hashes(code_hashes, fs, code_files)
       /\ doc_hashes' = record_hashes(doc_hashes, fs, doc_files)
       /\ dresp' = [code_files |-> code_files, doc_files |-> doc_files,
                    status |-> 200,
                    total_files |-> result.total_files,
                    drifted_files |-> result.drifted_files,
                    drift_score |-> result.drift_score,
                    recommendations |-> recommendations(result)]
       /\ UNCHANGED fs
       /\ UNCHANGED nonDriftVars

InitDriftVars ==
    /\ fs = << >>
    /\ code_hashes = << >>
    /\ doc_hashes = << >>
    /\ dresp = [code_files |-> <<>>, doc_files |-> <<>>, status |-> 0,
                total_files |-> 0, drifted_files |-> <<>>,
                drift_score |-> [num |-> 0, den |-> 1],
                recommendations |-> {}]

\* the detector starts empty, on any state of the file system
InitDrift ==
    /\ \E existing \in SUBSET Paths : fs \in [existing -> MTimes]
    /\ code_hashes = << >>
    /\ doc_hashes = << >>
    /\ dresp = [code_files |-> <<>>, doc_files |-> <<>>, status |-> 0,
                total_files |-> 0, drifted_files |-> <<>>,
                drift_score |-> [num |-> 0, den |-> 1],
                recommendations |-> {}]

NextDrift ==
    \E code_files \in CodeFileLists, doc_files \in DocFileLists :
        detect_documentation_drift(code_files, doc_files)

(***************************************************************************)
(* ai.py : HuggingFaceClient._fallback_summary.  A string is a sequence of *)
(* tokens: "." and " " are those characters, "w" is a one-letter word and  *)
(* "K" stands for the three-letter word "key", one of the key phrases.     *)
(***************************************************************************)
\* len(): the number of characters of a string
CharLen(str) == Len(str) + 2 * Cardinality({i \in 1..Len(str) : str[i] = "K"})

\* str.split(sep) for a one-character separator
RECURSIVE SplitOn(_, _)
SplitOn(str, sep) ==
    LET seps == {i \in 1..Len(str) : str[i] = sep}
    IN IF seps = {} THEN <<str>>
       ELSE LET first == CHOOSE i \in seps : \A j \in seps : i <= j
            IN <<SubSeq(str, 1, first - 1)>>
                 \o SplitOn(SubSeq(str, first + 1, Len(str)), sep)

\* str.strip()
RECURSIVE Strip(_)
Strip(str) ==
    IF Len(str) = 0 THEN str
    ELSE IF str[1] = " " THEN Strip(Tail(str))
    ELSE IF str[Len(str)] = " " THEN Strip(SubSeq(str, 1, Len(str) - 1))
    ELSE str

\* len(str.split()): the number of whitespace-separated words
SplitLen(str) ==
    Cardinality({i \in 1..Len(str) :
                    str[i] # " " /\ (i = 1 \/ str[i - 1] = " ")})

\* a Python slice list[lo:hi], 0-based, end exclusive
Slice(list, lo, hi) ==
    SubSeq(list, lo + 1, IF hi < Len(list) THEN hi ELSE Len(list))

\* [s.strip() for s in list if s.strip()]
StripNonEmpty(list) ==
    LET stripped == [i \in 1..Len(list) |-> Strip(list[i])]
    IN SelectSeq(stripped, LAMBDA str : Len(str) > 0)

\* sep.join(list)
RECURSIVE Join(_, _)
Join(list, sep) ==
    IF Len(list) = 0 THEN <<>>
    ELSE IF Len(list) = 1 THEN list[1]
    ELSE list[1] \o sep \o Join(Tail(list), sep)

\* any(keyword in sentence.lower() for keyword in ['important', 'key', ...])
HasKeyword(sentence) == \E i \in 1..Len(sentence) : sentence[i] = "K"

\* the number of sentences taken from the front for a summary_type
LeadingSentences(summary_type) ==
    CASE summary_type = "brief" -> 2
      [] summary_type = "comprehensive" -> 4
      [] summary_type = "detailed" -> 6
      [] OTHER -> 4

fallback_summary(text, summary_type) ==
    LET sentences == SplitOn(text, ".")
    IN IF Len(sentences) <= 3 THEN text
       ELSE
       LET leading == StripNonEmpty(
                          Slice(sentences, 0, LeadingSentences(summary_type)))
           first8 == Slice(sentences, 0, 8)
           key_phrases ==
               [i \in 1..Len(SelectSeq(first8, HasKeyword)) |->
                   Strip(SelectSeq(first8, HasKeyword)[i])]
           summary_sentences ==
               IF Len(sentences) > 10
               THEN leading \o Slice(key_phrases, 0, 2)
               ELSE leading
           summary == Join(summary_sentences, <<".", " ">>) \o <<".">>
       IN IF SplitLen(summary) < 30
          THEN summary \o <<" ">>
                 \o Join(StripNonEmpty(Slice(sentences, 4, 6)), <<".", " ">>)
                 \o <<".">>
          ELSE summary

\* the sentences a text is built from
EmptySentence == <<>>

WordSentence == <<" ", "w">>

KeySentence == <<" ", "K">>

LongSentence == [i \in 1..30 |-> IF i % 2 = 1 THEN " " ELSE "w"]

SentenceShapes == {WordSentence, KeySentence, LongSentence}

\* a text: up to MaxHead sentences drawn freely, then nothing, or a final
\* "." (an empty last sentence), or five more one-word sentences and a final
\* "."; the sentences are joined by "."
Tails == {<<>>, <<EmptySentence>>,
          [i \in 1..6 |-> IF i <= 5 THEN WordSentence ELSE EmptySentence]}

RECURSIVE Heads(_)
Heads(n) ==
    IF n = 0 THEN {<<>>}
    ELSE LET shorter == Heads(n - 1)
         IN shorter \cup {Append(h, x) : h \in {q \in shorter : Len(q) = n - 1},
                                         x \in SentenceShapes}

Texts == {Join(head \o tail, <<".">>) : head \in Heads(MaxHead), tail \in Tails}

SummaryTypes == {"brief", "comprehensive", "detailed", "other"}

summarize(summary_type) ==
    /\ IsNone(s_out[summary_type])
    /\ s_out' = [s_out EXCEPT
                    ![summary_type] = Some(fallback_summary(s_text, summary_type))]
    /\ UNCHANGED s_text
    /\ UNCHANGED nonSumVars

InitSumVars ==
    /\ s_text = <<>>
    /\ s_out = [t \in SummaryTypes |-> None]

InitSummary ==
    /\ s_text \in Texts
    /\ s_out = [t \in SummaryTypes |-> None]

NextSummary == \E summary_type \in SummaryTypes : summarize(summary_type)

(***************************************************************************)
(* core/mcp_client.py : MCPClient.get_context.  The MCP server is the      *)
(* environment: the awaited POST either throws (unreachable, timeout) or   *)
(* yields a response with a status and a body; response.json() raises on   *)
(* a body that is not JSON and returns whatever JSON value the body holds. *)
(* Confidences are in tenths.                                              *)
(***************************************************************************)
ContextTypes == {"summarization", "qa", "code_analysis", "translation"}

\* document_content / document_title : str = None
OptionalTexts == {None, Some(""), Some("text")}

\* Python truth of an optional string
Truthy(o) == ~IsNone(o) /\ Val(o) # ""

ServerOutcomes ==
    {[kind |-> "exception", status |-> 0, body |-> "none"]}
    \cup {[kind |-> "response", status |-> st, body |-> b] :
            st \in {200, 404, 500}, b \in {"object", "array", "invalid"}}

generate_fallback_context(query, context_type) ==
    CASE context_type = "summarization" ->
            [context |-> "Documentation summarization context",
             confidence |-> 8, has_document_content |-> FALSE]
      [] context_type = "qa" ->
            [context |-> "Q&A context for technical documentation",
             confidence |-> 7, has_document_content |-> FALSE]
      [] context_type = "code_analysis" ->
            [context |-> "Code analysis and documentation context",
             confidence |-> 6, has_document_content |-> FALSE]
      [] OTHER ->
            [context |-> "General documentation context",
             confidence |-> 5, has_document_content |-> FALSE]

generate_document_aware_context(query, context_type, content, title) ==
    IF Truthy(content) /\ Truthy(title)
    THEN CASE context_type = "qa" ->
                 [context |-> "Document: <title> Relevant content: <info>",
                  confidence |-> 9, has_document_content |-> TRUE]
           [] context_type = "summarization" ->
                 [context |-> "Document to summarize: <title> Content: <content>",
                  confidence |-> 8, has_document_content |-> TRUE]
           [] context_type = "code_analysis" ->
                 [context |-> "Code analysis for: <title> Code content: <content>",
                  confidence |-> 7, has_document_content |-> TRUE]
           [] OTHER ->
                 [context |-> "Document context: <title> Content: <content>",
                  confidence |-> 6, has_document_content |-> TRUE]
    ELSE generate_fallback_context(query, context_type)

\* a value returned by get_context: its Python type, where it comes from,
\* and the dictionary itself when it was generated locally
McpReturned(type, origin, value) ==
    [kind |-> "return", type |-> type, origin |-> origin, value |-> value]

McpRaised == [kind |-> "raise", type |-> "none", origin |-> "none", value |-> None]

McpLocal(query, context_type, document_content, document_title) ==
    McpReturned("dict", "local",
                Some(generate_document_aware_context(
                        query, context_type, document_content, document_title)))

\* get_context without its try/except
get_context_notry(enabled, query, context_type, content, title, server) ==
    LET local == McpLocal(query, context_type, content, title)
    IN IF ~enabled THEN local
       ELSE IF server.kind = "exception" THEN McpRaised
       ELSE IF server.status = 200
       THEN (IF server.body = "invalid" THEN McpRaised
             ELSE McpReturned(IF server.body = "object" THEN "dict" ELSE "list",
                              "server", None))
       ELSE local

get_context(enabled, query, context_type, content, title, server) ==
    LET local == McpLocal(query, context_type, content, title)
    IN IF ~enabled THEN local
       ELSE IF server.kind = "exception" THEN local
       ELSE IF server.status = 200
       THEN (IF server.body = "invalid" THEN local
             ELSE McpReturned(IF server.body = "object" THEN "dict" ELSE "list",
                              "server", None))
       ELSE local

call_get_context(context_type, document_content, document_title, server) ==
    /\ m_call' = [called |-> TRUE, query |-> "query",
                  context_type |-> context_type,
                  document_content |-> document_content,
                  document_title |-> document_title,
                  server |-> IF m_enabled THEN server
                             ELSE [kind |-> "not contacted", status |-> 0,
                                   body |-> "none"]]
    /\ m_ret' = get_context(m_enabled, "query", context_type, document_content,
                            document_title, server)
    /\ UNCHANGED m_enabled
    /\ UNCHANGED nonMcpVars

InitMcpVars ==
    /\ m_enabled = FALSE
    /\ m_call = [called |-> FALSE, query |-> "", context_type |-> "",
                 document_content |-> None, document_title |-> None,
                 server |-> [kind |-> "not contacted", status |-> 0,
                             body |-> "none"]]
    /\ m_ret = McpReturned("none", "none", None)

\* self.enabled = bool(settings.mcp_server_url and settings.mcp_api_key)
InitMcp ==
    /\ m_enabled \in BOOLEAN
    /\ m_call = [called |-> FALSE, query |-> "", context_type |-> "",
                 document_content |-> None, document_title |-> None,
                 server |-> [kind |-> "not contacted", status |-> 0,
                             body |-> "none"]]
    /\ m_ret = McpReturned("none", "none", None)

NextMcp ==
    \E context_type \in ContextTypes, document_content \in OptionalTexts,
       document_title \in OptionalTexts, server \in ServerOutcomes :
        call_get_context(context_type, document_content, document_title, server)

(***************************************************************************)
(* docs.py : the routes of the /api/docs router and how a GET request is   *)
(* dispatched to one of them.  A path is the sequence of its segments      *)
(* after the prefix: "/api/docs/" is << >>, "/api/docs/templates/readme"   *)
(* is <<"templates", "readme">>.  The router tries its routes in the order *)
(* of registration and calls the first whose path and method both match;   *)
(* a path parameter matches any one segment.                               *)
(***************************************************************************)
Route(method, path, handler) ==
    [method |-> method, path |-> path, handler |-> handler]

\* the @router decorators of docs.py in the order they are executed
DocsRoutes ==
    << Route("POST", << >>, "create_document"),
       Route("GET", <<"{doc_id}">>, "get_document"),
       Route("PUT", <<"{doc_id}">>, "update_document"),
       Route("DELETE", <<"{doc_id}">>, "delete_document"),
       Route("POST", <<"search">>, "search_documents"),
       Route("GET", << >>, "list_documents"),
       Route("GET", <<"templates">>, "get_document_templates"),
       Route("GET", <<"templates", "{template_id}">>, "get_document_template"),
       Route("POST", <<"upload">>, "upload_document"),
       Route("GET", <<"stats">>, "get_document_stats"),
       Route("GET", <<"health">>, "docs_health_check") >>

IsParam(segment) == segment \in {"{doc_id}", "{template_id}"}

PathMatches(pattern, path) ==
    /\ Len(pattern) = Len(path)
    /\ \A i \in 1..Len(pattern) : IsParam(pattern[i]) \/ pattern[i] = path[i]

\* the handler called for a request: the first route that matches in full;
\* 405 when only the path of some route matches, 404 when none does
Dispatch(routes, method, path) ==
    LET full == {i \in 1..Len(routes) :
                    /\ PathMatches(routes[i].path, path)
                    /\ routes[i].method = method}
        partial == {i \in 1..Len(routes) : PathMatches(routes[i].path, path)}
    IN IF full # {}
       THEN routes[CHOOSE i \in full : \A j \in full : i <= j].handler
       ELSE IF partial # {} THEN "method not allowed"
       ELSE "not found"

\* keys of DocumentManager.templates
TemplateIds == {"api-doc", "readme", "tutorial"}

\* the document a path segment names: "doc_<n>" is the key of document n,
\* any other segment is no key and is represented by 0
DocKey(segment) ==
    CASE segment = "doc_1" -> 1
      [] segment = "doc_2" -> 2
      [] segment = "doc_3" -> 3
      [] OTHER -> 0

\* what the handler answers for the path
Handle(handler, path) ==
    CASE handler = "get_document" ->
            ExceptException(
                IF IsNone(get_document(documents, DocKey(path[1])))
                THEN Raised(404, "Document not found")
                ELSE Returned(get_document(documents, DocKey(path[1]))),
                "Failed to get document")
      [] handler = "get_document_template" ->
            ExceptException(
                IF path[2] \notin TemplateIds
                THEN Raised(404, "Template not found")
                ELSE Returned(path[2]),
                "Failed to get template")
      [] handler = "method not allowed" ->
            [status |-> 405, detail |-> "Method Not Allowed"]
      [] handler = "not found" ->
            [status |-> 404, detail |-> "Not Found"]
      [] OTHER -> [status |-> 200, detail |-> ""]

GetPaths ==
    { << >>, <<"doc_1">>, <<"doc_2">>, <<"doc_3">>, <<"health">>, <<"stats">>,
      <<"templates">>, <<"search">>, <<"templates", "readme">>,
      <<"templates", "none">>, <<"health", "live">> }

http_get(path) ==
    LET handler == Dispatch(DocsRoutes, "GET", path)
        http == Handle(handler, path)
    IN /\ r_resp' = [path |-> Some(path), handler |-> handler,
                     status |-> http.status, detail |-> http.detail]
       /\ UNCHANGED nonRouteVars

InitRouteVars == r_resp = [path |-> None, handler |-> "none", status |-> 0,
                           detail |-> ""]

NextRoutes ==
    \/ \E request \in CreateRequests, now \in Times :
          create_document_route(request, now)
    \/ \E path \in GetPaths : http_get(path)

(***************************************************************************)
(* onboarding.py : TutorialManager.user_progress.  Identifiers are         *)
(* sequences of tokens, "_" being a token of its own, so that the key      *)
(* f"{user_id}_{tutorial_id}" is the concatenation it is in the code.      *)
(***************************************************************************)
UserIds == {<<"ann">>, <<"ann", "_", "x">>}

TutorialIds == {<<"y">>, <<"x", "_", "y">>}

StepIds == {"intro", "first-doc"}

QuizScores == {None, Some(1)}

progress_key(user_id, tutorial_id) == user_id \o <<"_">> \o tutorial_id

get_user_progress(progress, user_id, tutorial_id) ==
    LET key == progress_key(user_id, tutorial_id)
    IN IF key \in DOMAIN progress THEN Some(progress[key]) ELSE None

\* quiz_scores[step_id] = quiz_score
SetScore(quiz_scores, step_id, quiz_score) ==
    [st \in DOMAIN quiz_scores \cup {step_id} |->
        IF st = step_id THEN quiz_score ELSE quiz_scores[st]]

\* the value of user_progress after update_progress
update_progress(progress, user_id, tutorial_id, step_id, quiz_score, now) ==
    LET key == progress_key(user_id, tutorial_id)
        before == IF key \in DOMAIN progress
                  THEN progress[key]
                  ELSE [user_id |-> user_id, tutorial_id |-> tutorial_id,
                        completed_steps |-> << >>, current_step |-> step_id,
                        start_date |-> now, last_activity |-> now,
                        quiz_scores |-> << >>]
        after == [before EXCEPT
                    !.completed_steps =
                        IF \E i \in 1..Len(@) : @[i] = step_id THEN @
                        ELSE Append(@, step_id),
                    !.quiz_scores =
                        IF IsNone(quiz_score) THEN @
                        ELSE SetScore(@, step_id, Val(quiz_score)),
                    !.last_activity = now,
                    !.current_step = step_id]
    IN [k \in DOMAIN progress \cup {key} |->
          IF k = key THEN after ELSE progress[k]]

call_update_progress(user_id, tutorial_id, step_id, quiz_score, now) ==
    /\ p_last.count < MaxUpdates
    /\ user_progress' = update_progress(user_progress, user_id, tutorial_id,
                                        step_id, quiz_score, now)
    /\ p_last' = [count |-> p_last.count + 1, user_id |-> user_id,
                  tutorial_id |-> tutorial_id]
    /\ UNCHANGED nonProgVars

InitProgVars ==
    /\ user_progress = << >>
    /\ p_last = [count |-> 0, user_id |-> << >>, tutorial_id |-> << >>]

NextProgress ==
    \E user_id \in UserIds, tutorial_id \in TutorialIds, step_id \in StepIds,
       quiz_score \in QuizScores, now \in Times :
        call_update_progress(user_id, tutorial_id, step_id, quiz_score, now)

(***************************************************************************)
(* maintenance.py : ChangeMonitor.  A component name is a sequence of      *)
(* tokens and a timestamp is a token, so that the hashed string            *)
(* f"{component_name}{timestamp}" is their concatenation; md5 is taken to  *)
(* be injective on these strings.                                          *)
(***************************************************************************)
ComponentNames == {<<"A">>, <<"B">>}

ChangeTypes == {"added", "modified"}

ChangeNotificationRequests ==
    [component_name : ComponentNames, change_type : ChangeTypes,
     file_path : {FileA, FileB}, timestamp : Times]

find_affected_docs(files, notification) ==
    LET base == notification.file_path
        docs == << Path(base.dir, base.stem, ".md"),
                   Path(base.dir, base.stem, ".rst"),
                   Path("docs/", base.stem, ".md") >>
    IN SelectSeq(docs, LAMBDA doc : Exists(files, doc))

notification_id(notification) ==
    <<"md5">> \o notification.component_name \o <<notification.timestamp>>

notification_dict(files, notification) ==
    [component_name |-> notification.component_name,
     change_type |-> notification.change_type,
     file_path |-> notification.file_path,
     timestamp |-> notification.timestamp,
     notification_id |-> notification_id(notification),
     status |-> "pending",
     affected_docs |-> find_affected_docs(files, notification),
     action_required |-> Len(find_affected_docs(files, notification)) > 0]

\* add_notification that keeps one record per notification_id
add_notification_dedup(list, files, notification) ==
    IF \E i \in 1..Len(list) :
          list[i].notification_id = notification_id(notification)
    THEN [i \in 1..Len(list) |->
            IF list[i].notification_id = notification_id(notification)
            THEN notification_dict(files, notification) ELSE list[i]]
    ELSE Append(list, notification_dict(files, notification))

\* the value of self.notifications after add_notification
add_notification(list, files, notification) ==
    Append(list, notification_dict(files, notification))

call_add_notification(notification) ==
    /\ n_calls < MaxNotifications
    /\ notifications' = add_notification(notifications, fs, notification)
    /\ n_calls' = n_calls + 1
    /\ UNCHANGED nonNotifVars

InitNotifVars ==
    /\ notifications = << >>
    /\ n_calls = 0

\* the documentation files the notifications may find on disk
NotifyDocs == {Path("src/", "a", ".md"), Path("docs/", "a", ".md")}

\* the drift detector as constructed, on a file system with some of NotifyDocs
InitNotifyFiles ==
    /\ \E existing \in SUBSET NotifyDocs : fs = [doc \in existing |-> 0]
    /\ code_hashes = << >>
    /\ doc_hashes = << >>
    /\ dresp = [code_files |-> <<>>, doc_files |-> <<>>, status |-> 0,
                total_files |-> 0, drifted_files |-> <<>>,
                drift_score |-> [num |-> 0, den |-> 1],
                recommendations |-> {}]

NextNotify ==
    \E notification \in ChangeNotificationRequests :
        call_add_notification(notification)

(***************************************************************************)
(* parsing.py : PythonParser.parse_python.  A source text is given by what *)
(* ast.parse makes of it: whether it is well-formed, its top-level         *)
(* statements, and how deeply its expressions nest.  NodeVisitor.visit     *)
(* recurses once per nesting level, so a tree that ast.parse still builds  *)
(* ("deep") can exceed the interpreter's recursion limit in the visitor;   *)
(* beyond that ("too deep") ast.parse itself raises RecursionError.        *)
(***************************************************************************)
Statements ==
    { [kind |-> "def", name |-> "f"],
      [kind |-> "async def", name |-> "g"],
      [kind |-> "class", name |-> "C"],
      [kind |-> "import", name |-> "os"],
      [kind |-> "from", name |-> "a.b"],
      [kind |-> "assign", name |-> "x"] }

Nestings == {"shallow", "deep", "too deep"}

Sources ==
    [wellformed : BOOLEAN, nesting : Nestings,
     stmts : UNION {[1..n -> Statements] : n \in 0..MaxStmts}]

Threw(exception) == [kind |-> "raise", exception |-> exception, tree |-> << >>]

\* ast.parse(code)
ast_parse(code) ==
    IF ~code.wellformed THEN Threw("SyntaxError")
    ELSE IF code.nesting = "too deep" THEN Threw("RecursionError")
    ELSE [kind |-> "return", exception |-> "", tree |-> code.stmts]

NamesOf(tree, kind) ==
    LET picked == SelectSeq(tree, LAMBDA stmt : stmt.kind = kind)
    IN [i \in 1..Len(picked) |-> picked[i].name]

\* PythonAnalyzer.get_results() after visit(tree)
get_results(tree) ==
    [keys |-> {"functions", "classes", "imports", "complexity_score"},
     functions |-> NamesOf(tree, "def"),
     classes |-> NamesOf(tree, "class"),
     imports |-> LET picked == SelectSeq(tree, LAMBDA stmt :
                                        stmt.kind \in {"import", "from"})
                 IN [i \in 1..Len(picked) |-> picked[i].name],
     complexity_score |-> Len(NamesOf(tree, "def"))
                          + 2 * Len(NamesOf(tree, "class")),
     error |-> ""]

ErrorDict(exception) ==
    [keys |-> {"error"}, functions |-> << >>, classes |-> << >>,
     imports |-> << >>, complexity_score |-> 0, error |-> exception]

\* parse_python: the try block, with every Exception turned into an error dict
parse_python(code) ==
    LET parsed == ast_parse(code)
    IN IF parsed.kind = "raise"
       THEN [kind |-> "return", value |-> ErrorDict(parsed.exception)]
       ELSE IF code.nesting = "deep"
       THEN \* analyzer.visit(tree) raises RecursionError
            [kind |-> "return", value |-> ErrorDict("RecursionError")]
       ELSE [kind |-> "return", value |-> get_results(parsed.tree)]

call_parse_python(code) ==
    /\ parse_code' = Some(code)
    /\ parse_result' = Some(parse_python(code))
    /\ UNCHANGED nonParseVars

InitParseVars ==
    /\ parse_code = None
    /\ parse_result = None

NextParse == \E code \in Sources : call_parse_python(code)

(***************************************************************************)
(* docs.py : DocumentManager.search_documents and POST /search.            *)
(* Chars gives the characters of the strings that occur in documents and   *)
(* queries, so that lower() and the substring test are computed.           *)
(***************************************************************************)
Chars(str) ==
    CASE str = "" -> << >>
      [] str = "Guide" -> <<"G", "u", "i", "d", "e">>
      [] str = "Manual" -> <<"M", "a", "n", "u", "a", "l">>
      [] str = "Handbook" -> <<"H", "a", "n", "d", "b", "o", "o", "k">>
      [] str = "alpha" -> <<"a", "l", "p", "h", "a">>
      [] str = "beta" -> <<"b", "e", "t", "a">>
      [] str = "gamma" -> <<"g", "a", "m", "m", "a">>
      [] str = "api" -> <<"a", "p", "i">>
      [] str = "GUI" -> <<"G", "U", "I">>
      [] str = "A" -> <<"A">>
      [] str = "zz" -> <<"z", "z">>

lower_char(c) ==
    CASE c = "A" -> "a"
      [] c = "G" -> "g"
      [] c = "H" -> "h"
      [] c = "I" -> "i"
      [] c = "M" -> "m"
      [] c = "U" -> "u"
      [] OTHER -> c

\* str.lower()
lower(str) == [i \in 1..Len(Chars(str)) |-> lower_char(Chars(str)[i])]

\* a in b, for two sequences of characters
In(a, b) ==
    \E i \in 0..(Len(b) - Len(a)) : SubSeq(b, i + 1, i + Len(a)) = a

Queries == {"", "GUI", "A", "zz"}

Limits == {-1, 0, 1, 2}

\* every query with every limit, and every combination of filters
DocumentSearchRequests ==
    [query : Queries, language : {None}, tags : {None},
     content_type : {None}, limit : Limits]
    \cup
    [query : {""}, language : {None, Some("es")},
     tags : {None, Some(<<"api", "zz">>)},
     content_type : {None, Some("html")}, limit : {2}]

\* self.documents.values(): the stored documents in insertion order, which
\* is the order of their ids
RECURSIVE values(_)
values(docs) ==
    IF DOMAIN docs = {} THEN << >>
    ELSE LET last == CHOOSE d \in DOMAIN docs : \A e \in DOMAIN docs : e <= d
         IN Append(values([d \in DOMAIN docs \ {last} |-> docs[d]]), docs[last])

\* the body of the loop: doc is appended to results
search_match(doc, query, language, tags, content_type) ==
    /\ ~(Truthy(language) /\ doc.language # Val(language))
    /\ ~(Truthy(content_type) /\ doc.content_type # Val(content_type))
    /\ ~(/\ ~IsNone(tags) /\ Len(Val(tags)) > 0
         /\ ~\E i \in 1..Len(Val(tags)), j \in 1..Len(doc.tags) :
                Val(tags)[i] = doc.tags[j])
    /\ \/ In(lower(query), lower(doc.title))
       \/ In(lower(query), lower(doc.content))
       \/ \E j \in 1..Len(doc.tags) : In(lower(query), lower(doc.tags[j]))

\* list.sort(key=updated_at, reverse=True): stable, descending
RECURSIVE sort_updated_at(_)
sort_updated_at(list) ==
    IF Len(list) = 0 THEN << >>
    ELSE LET x == list[Len(list)]
             rest == sort_updated_at(SubSeq(list, 1, Len(list) - 1))
             n == Cardinality({i \in 1..Len(rest) :
                                  rest[i].updated_at >= x.updated_at})
         IN SubSeq(rest, 1, n) \o <<x>> \o SubSeq(rest, n + 1, Len(rest))

\* list[:limit]
slice_to(list, limit) ==
    IF limit >= 0
    THEN SubSeq(list, 1, IF limit < Len(list) THEN limit ELSE Len(list))
    ELSE SubSeq(list, 1, IF Len(list) + limit > 0 THEN Len(list) + limit ELSE 0)

search_documents(docs, query, language, tags, content_type, limit) ==
    LET results == SelectSeq(values(docs),
                       LAMBDA doc : search_match(doc, query, language, tags,
                                                 content_type))
    IN slice_to(sort_updated_at(results), limit)

search_documents_route(request) ==
    LET results == search_documents(documents, request.query, request.language,
                                    request.tags, request.content_type,
                                    request.limit)
        http == ExceptException(Returned(results), "Search failed")
    IN /\ sresp' = [request |-> Some(request), status |-> http.status,
                    detail |-> http.detail, results |-> results,
                    total |-> Len(results), query |-> request.query,
                    searched |-> documents]
       /\ UNCHANGED nonSearchVars

InitSearchVars ==
    sresp = [request |-> None, status |-> 0, detail |-> "", results |-> << >>,
             total |-> 0, query |-> "", searched |-> << >>]

NextSearch ==
    \/ \E request \in CreateRequests, now \in Times :
          create_document_route(request, now)
    \/ \E request \in DocumentSearchRequests : search_documents_route(request)

(***************************************************************************)
(* onboarding.py : the routes over TutorialManager.  A client may send any *)
(* tutorial_id, user_id and step_id.                                       *)
(***************************************************************************)
\* TutorialManager._load_default_tutorials: the steps and the estimated time
tutorials ==
    [t \in {<<"getting-started">>, <<"advanced-features">>} |->
        IF t = <<"getting-started">>
        THEN [steps |-> <<"intro", "first-doc", "ai-features">>,
              total_estimated_time |-> 23]
        ELSE [steps |-> <<"drift-detection", "maintenance">>,
              total_estimated_time |-> 35]]

get_tutorial(tutorial_id) ==
    IF tutorial_id \in DOMAIN tutorials THEN Some(tutorials[tutorial_id]) ELSE None

RouteTutorialIds == DOMAIN tutorials \cup {<<"x", "_", "y">>}

RouteStepIds == {"intro", "drift-detection", "maintenance"}

complete_tutorial_step_nocheck(tutorial_id, user_id, step_id, quiz_score, now) ==
    \* variant: the step is not validated against the tutorial
    LET tutorial == get_tutorial(tutorial_id)
        outcome == IF IsNone(tutorial)
                   THEN Raised(404, "Tutorial not found")
                   ELSE Returned(step_id)
        http == ExceptException(outcome, "Failed to complete step")
        updated == outcome.kind = "return"
    IN /\ updated => p_last.count < MaxUpdates
       /\ user_progress' =
             IF updated
             THEN update_progress(user_progress, user_id, tutorial_id, step_id,
                                  quiz_score, now)
             ELSE user_progress
       /\ p_last' = IF updated
                    THEN [count |-> p_last.count + 1, user_id |-> user_id,
                          tutorial_id |-> tutorial_id]
                    ELSE p_last
       /\ o_resp' = [route |-> "complete-step", status |-> http.status,
                     detail |-> http.detail, user_id |-> user_id,
                     tutorial_id |-> tutorial_id, step_id |-> step_id,
                     body |-> IF updated
                              THEN Some([status |-> "step completed",
                                         step_id |-> step_id])
                              ELSE None]
       /\ o_hist' = IF updated
                    THEN [k \in DOMAIN o_hist \cup {<<user_id, tutorial_id>>} |->
                            IF k = <<user_id, tutorial_id>> THEN step_id
                            ELSE o_hist[k]]
                    ELSE o_hist
       /\ UNCHANGED nonOnbVars

complete_tutorial_step(tutorial_id, user_id, step_id, quiz_score, now) ==
    LET tutorial == get_tutorial(tutorial_id)
        outcome == IF IsNone(tutorial)
                   THEN Raised(404, "Tutorial not found")
                   ELSE IF ~\E i \in 1..Len(Val(tutorial).steps) :
                               Val(tutorial).steps[i] = step_id
                   THEN Raised(400, "Invalid step ID")
                   ELSE Returned(step_id)
        http == ExceptException(outcome, "Failed to complete step")
        updated == outcome.kind = "return"
    IN /\ updated => p_last.count < MaxUpdates
       /\ user_progress' =
             IF updated
             THEN update_progress(user_progress, user_id, tutorial_id, step_id,
                                  quiz_score, now)
             ELSE user_progress
       /\ p_last' = IF updated
                    THEN [count |-> p_last.count + 1, user_id |-> user_id,
                          tutorial_id |-> tutorial_id]
                    ELSE p_last
       /\ o_resp' = [route |-> "complete-step", status |-> http.status,
                     detail |-> http.detail, user_id |-> user_id,
                     tutorial_id |-> tutorial_id, step_id |-> step_id,
                     body |-> IF updated
                              THEN Some([status |-> "step completed",
                                         step_id |-> step_id])
                              ELSE None]
       /\ o_hist' = IF updated
                    THEN [k \in DOMAIN o_hist \cup {<<user_id, tutorial_id>>} |->
                            IF k = <<user_id, tutorial_id>> THEN step_id
                            ELSE o_hist[k]]
                    ELSE o_hist
       /\ UNCHANGED nonOnbVars

\* the loop "for step in tutorial.steps: if step.step_id not in
\* progress.completed_steps: next_step = step.step_id; break"
find_next_step_last(steps, completed_steps) ==
    \* variant: no break, the last step not completed wins
    LET open == {i \in 1..Len(steps) :
                    ~\E j \in 1..Len(completed_steps) :
                        completed_steps[j] = steps[i]}
    IN IF open = {} THEN ""
       ELSE steps[CHOOSE i \in open : \A j \in open : j <= i]

find_next_step(steps, completed_steps) ==
    LET open == {i \in 1..Len(steps) :
                    ~\E j \in 1..Len(completed_steps) :
                        completed_steps[j] = steps[i]}
    IN IF open = {} THEN ""
       ELSE steps[CHOOSE i \in open : \A j \in open : i <= j]

\* the ProgressResponse of get_tutorial_progress; the percentage is rounded
\* down to an integer
ProgressResponse(tutorial_id, tutorial, progress) ==
    IF IsNone(progress)
    THEN [tutorial_id |-> tutorial_id, progress_percentage |-> 0,
          completed_steps |-> 0, total_steps |-> Len(tutorial.steps),
          current_step |-> IF Len(tutorial.steps) > 0 THEN tutorial.steps[1] ELSE "",
          next_step |-> IF Len(tutorial.steps) > 0 THEN tutorial.steps[1] ELSE "",
          estimated_completion |-> tutorial.total_estimated_time]
    ELSE LET completed_count == Len(Val(progress).completed_steps)
             total_steps == Len(tutorial.steps)
         IN [tutorial_id |-> tutorial_id,
             progress_percentage |->
                 IF total_steps > 0
                 THEN (completed_count * 100) \div total_steps ELSE 0,
             completed_steps |-> completed_count,
             total_steps |-> total_steps,
             current_step |-> Val(progress).current_step,
             next_step |-> find_next_step(tutorial.steps,
                                          Val(progress).completed_steps),
             estimated_completion |-> (total_steps - completed_count) * 10]

get_tutorial_progress(tutorial_id, user_id) ==
    LET progress == get_user_progress(user_progress, user_id, tutorial_id)
        tutorial == get_tutorial(tutorial_id)
        outcome == IF IsNone(tutorial)
                   THEN Raised(404, "Tutorial not found")
                   ELSE Returned(progress)
        http == ExceptException(outcome, "Failed to get progress")
    IN /\ o_resp' = [route |-> "progress", status |-> http.status,
                     detail |-> http.detail, user_id |-> user_id,
                     tutorial_id |-> tutorial_id, step_id |-> "",
                     body |-> IF outcome.kind = "return"
                              THEN Some(ProgressResponse(tutorial_id,
                                            Val(tutorial), progress))
                              ELSE None]
       /\ UNCHANGED <<user_progress, p_last, o_hist>>
       /\ UNCHANGED nonOnbVars

\* len(set(progress.split('_')[0] for progress in user_progress.keys()))
total_users(progress) ==
    Cardinality({SplitOn(key, "_")[1] : key \in DOMAIN progress})

onboarding_health_check ==
    /\ o_resp' = [route |-> "health", status |-> 200, detail |-> "",
                  user_id |-> << >>, tutorial_id |-> << >>, step_id |-> "",
                  body |-> Some([status |-> "healthy",
                                 tutorials_available |-> Cardinality(DOMAIN tutorials),
                                 total_users |-> total_users(user_progress)])]
    /\ UNCHANGED <<user_progress, p_last, o_hist>>
    /\ UNCHANGED nonOnbVars

InitOnbVars ==
    /\ o_resp = [route |-> "none", status |-> 0, detail |-> "", user_id |-> << >>,
                 tutorial_id |-> << >>, step_id |-> "", body |-> None]
    /\ o_hist = << >>

\* datetime.now() is read as the number of the update
NextOnboarding ==
    \/ \E tutorial_id \in RouteTutorialIds, user_id \in UserIds,
          step_id \in RouteStepIds, quiz_score \in QuizScores :
          complete_tutorial_step(tutorial_id, user_id, step_id, quiz_score,
                                 p_last.count + 1)
    \/ \E tutorial_id \in RouteTutorialIds, user_id \in UserIds :
          get_tutorial_progress(tutorial_id, user_id)
    \/ onboarding_health_check

(***************************************************************************)
(* maintenance.py : POST /notify-change                                    *)
(***************************************************************************)
\* next((n for n in notifications if n["notification_id"] == id), None)
first_with_id_last(list, id) ==
    \* variant: the most recent record with that id
    LET found == {i \in 1..Len(list) : list[i].notification_id = id}
    IN IF found = {} THEN None
       ELSE Some(list[CHOOSE i \in found : \A j \in found : j <= i])

first_with_id(list, id) ==
    LET found == {i \in 1..Len(list) : list[i].notification_id = id}
    IN IF found = {} THEN None
       ELSE Some(list[CHOOSE i \in found : \A j \in found : i <= j])

notify_component_change(request) ==
    LET list == add_notification(notifications, fs, request)
        id == notification_id(request)
        notification == first_with_id(list, id)
        outcome == IF ~IsNone(notification)
                   THEN Returned(notification)
                   ELSE Raised(500, "Failed to create notification")
        http == ExceptException(outcome, "Change notification failed")
    IN /\ n_calls < MaxNotifications
       /\ notifications' = list
       /\ n_calls' = n_calls + 1
       /\ n_resp' = [request |-> Some(request), status |-> http.status,
                     detail |-> http.detail,
                     body |-> IF outcome.kind = "return"
                              THEN Some([notification_id |-> id,
                                         status |-> Val(notification).status,
                                         affected_docs |->
                                             Val(notification).affected_docs,
                                         action_required |->
                                             Val(notification).action_required])
                              ELSE None]
       /\ UNCHANGED nonNresVars

InitNresVars ==
    n_resp = [request |-> None, status |-> 0, detail |-> "", body |-> None]

NextNotifyRoute ==
    \E request \in ChangeNotificationRequests : notify_component_change(request)

(***************************************************************************)
(* maintenance.py : POST /webhook/github.  The handler adds one background *)
(* task per file change; the tasks of a request run in order once its      *)
(* response has been sent, and the tasks of different requests interleave. *)
(***************************************************************************)
\* a commit of the payload: commit.get("modified", []) and so on
Commits ==
    { [modified |-> <<FileA>>, added |-> << >>, removed |-> << >>],
      [modified |-> << >>, added |-> <<FileA>>, removed |-> <<FileB>>],
      [modified |-> <<FileA>>, added |-> <<FileA>>, removed |-> << >>] }

\* payloads without "commits", and with up to MaxCommits commits
Payloads ==
    {[commits |-> None]}
    \cup {[commits |-> Some(commits)] : commits \in SeqsUpTo(Commits, MaxCommits)}

\* os.path.basename
basename(path) == <<path.stem, path.ext>>

\* commit.get("modified", []) + commit.get("added", []) + commit.get("removed", [])
file_changes(commit) == commit.modified \o commit.added \o commit.removed

Listed(list, path) == \E i \in 1..Len(list) : list[i] = path

change_type_of(commit, file_change) ==
    IF Listed(commit.added, file_change) THEN "added"
    ELSE IF Listed(commit.removed, file_change) THEN "deleted"
    ELSE "modified"

\* the notifications created for one commit, in order
commit_tasks(commit, now) ==
    [i \in 1..Len(file_changes(commit)) |->
        [component_name |-> basename(file_changes(commit)[i]),
         change_type |-> change_type_of(commit, file_changes(commit)[i]),
         file_path |-> file_changes(commit)[i],
         timestamp |-> now]]

\* the tasks added for the commits of a payload, in order
RECURSIVE payload_tasks(_, _)
payload_tasks(commits, now) ==
    IF Len(commits) = 0 THEN << >>
    ELSE commit_tasks(Head(commits), now) \o payload_tasks(Tail(commits), now)

github_webhook(payload, now) ==
    LET tasks == IF IsNone(payload.commits) THEN << >>
                 ELSE payload_tasks(Val(payload.commits), now)
        http == ExceptException(Returned(tasks), "Webhook processing failed")
    IN /\ Len(w_log) < MaxWebhooks
       /\ w_tasks' = IF Len(tasks) = 0 THEN w_tasks ELSE Append(w_tasks, tasks)
       /\ w_resp' = [payload |-> Some(payload), status |-> http.status,
                     detail |-> http.detail]
       /\ w_log' = Append(w_log, payload)
       /\ UNCHANGED <<notifications, n_calls>>
       /\ UNCHANGED nonHookVars

\* the next background task of the i-th request that still has tasks
run_background_task(i) ==
    /\ i \in 1..Len(w_tasks)
    /\ notifications' = add_notification(notifications, fs, Head(w_tasks[i]))
    /\ n_calls' = n_calls + 1
    /\ w_tasks' = IF Len(w_tasks[i]) = 1
                  THEN SubSeq(w_tasks, 1, i - 1)
                          \o SubSeq(w_tasks, i + 1, Len(w_tasks))
                  ELSE [w_tasks EXCEPT ![i] = Tail(@)]
    /\ UNCHANGED <<w_resp, w_log>>
    /\ UNCHANGED nonHookVars

RunTasks == \E i \in 1..Len(w_tasks) : run_background_task(i)

InitHookVars ==
    /\ w_tasks = << >>
    /\ w_resp = [payload |-> None, status |-> 0, detail |-> ""]
    /\ w_log = << >>

NextWebhook ==
    \/ \E payload \in Payloads, now \in Times : github_webhook(payload, now)
    \/ RunTasks

\* everything outside the four subsystems above, after construction
InitRestVars ==
    /\ InitMcpVars /\ InitRouteVars /\ InitProgVars /\ InitNotifVars
    /\ InitParseVars /\ InitSearchVars /\ InitOnbVars /\ InitNresVars
    /\ InitHookVars

(***************************************************************************)
(* Specifications                                                          *)
(***************************************************************************)
\* the state after construction of the module-level manager objects
InitSpecDocs ==
    InitDocs /\ InitTransVars /\ InitDriftVars /\ InitSumVars /\ InitRestVars

SpecDocs == InitSpecDocs /\ [][NextDocs]_vars

\* the same, for any configuration of the API keys
InitSpecTrans ==
    InitDocs /\ InitTrans /\ InitDriftVars /\ InitSumVars /\ InitRestVars

SpecTrans == InitSpecTrans /\ [][NextTrans]_vars

\* the same, on any state of the file system
InitSpecDrift ==
    InitDocs /\ InitTransVars /\ InitDrift /\ InitSumVars /\ InitRestVars

SpecDrift == InitSpecDrift /\ [][NextDrift]_vars

\* the same, for any text to summarise
InitSpecSummary ==
    InitDocs /\ InitTransVars /\ InitDriftVars /\ InitSummary /\ InitRestVars

SpecSummary == InitSpecSummary /\ [][NextSummary]_vars

\* the document store behind the dispatcher of the /api/docs router
InitSpecRoutes ==
    InitDocs /\ InitTransVars /\ InitDriftVars /\ InitSumVars /\ InitRestVars

SpecRoutes == InitSpecRoutes /\ [][NextRoutes]_vars

\* the tutorial manager
InitSpecProgress ==
    InitDocs /\ InitTransVars /\ InitDriftVars /\ InitSumVars /\ InitRestVars

SpecProgress == InitSpecProgress /\ [][NextProgress]_vars

\* the change monitor, with some documentation files on disk
InitSpecNotify ==
    InitDocs /\ InitTransVars /\ InitNotifyFiles /\ InitSumVars /\ InitRestVars

SpecNotify == InitSpecNotify /\ [][NextNotify]_vars

\* the Python parser
InitSpecParse ==
    InitDocs /\ InitTransVars /\ InitDriftVars /\ InitSumVars /\ InitRestVars

SpecParse == InitSpecParse /\ [][NextParse]_vars

\* the same, with MCP enabled or not
InitSpecMcp ==
    /\ InitDocs /\ InitTransVars /\ InitDriftVars /\ InitSumVars
    /\ InitMcp /\ InitRouteVars /\ InitProgVars /\ InitNotifVars /\ InitParseVars
    /\ InitSearchVars /\ InitOnbVars /\ InitNresVars /\ InitHookVars

SpecMcp == InitSpecMcp /\ [][NextMcp]_vars

\* the document store behind POST /api/docs/search
InitSpecSearch ==
    InitDocs /\ InitTransVars /\ InitDriftVars /\ InitSumVars /\ InitRestVars

SpecSearch == InitSpecSearch /\ [][NextSearch]_vars

\* the change monitor behind POST /notify-change, with some documentation
\* files on disk
InitSpecNotifyRoute ==
    InitDocs /\ InitTransVars /\ InitNotifyFiles /\ InitSumVars /\ InitRestVars

SpecNotifyRoute == InitSpecNotifyRoute /\ [][NextNotifyRoute]_vars

\* the change monitor behind the GitHub webhook
InitSpecWebhook ==
    InitDocs /\ InitTransVars /\ InitDriftVars /\ InitSumVars /\ InitRestVars

SpecWebhook == InitSpecWebhook /\ [][NextWebhook]_vars

\* the same, background tasks being run once the response is sent
InitSpecWebhookFair ==
    InitDocs /\ InitTransVars /\ InitDriftVars /\ InitSumVars /\ InitRestVars

SpecWebhookFair ==
    InitSpecWebhookFair /\ [][NextWebhook]_vars /\ WF_vars(RunTasks)

\* the tutorial manager behind the routes of the onboarding router
InitSpecOnboarding ==
    InitDocs /\ InitTransVars /\ InitDriftVars /\ InitSumVars /\ InitRestVars

SpecOnboarding == InitSpecOnboarding /\ [][NextOnboarding]_vars

(***************************************************************************)
(* Claims on the document store                                            *)
(***************************************************************************)
SameAsRequest(document, request) ==
    /\ document.title = request.title
    /\ document.content = request.content
    /\ document.content_type = request.content_type
    /\ document.language = request.language
    /\ document.tags = request.tags
    /\ document.author = request.author
    /\ document.version = request.version

\* C1: a document created from a request and neither updated nor deleted
\* since is returned by get_document with the request's title, content,
\* content_type, language, tags, author and version, whatever happened to
\* the other documents.
C1_CreateGetRoundTrip ==
    /\ \A d \in DOMAIN created_req :
          LET g == get_document(documents, d)
          IN  ~IsNone(g) /\ SameAsRequest(Val(g), created_req[d])
    /\ (resp.route = "GET" /\ resp.doc_id \in DOMAIN created_req) =>
          /\ ~IsNone(resp.document)
          /\ SameAsRequest(Val(resp.document), created_req[resp.doc_id])

C1_Witness ==
    /\ resp.route = "GET"
    /\ resp.doc_id \in DOMAIN created_req
    /\ \E e \in DocIds \ {resp.doc_id} :
          \/ e \in deleted
          \/ e \in DOMAIN documents /\ e \notin DOMAIN created_req

\* The step is update_document(d, request) on a stored document d.
UpdateStep(d, request) ==
    /\ resp'.route = "PUT"
    /\ resp'.doc_id = d
    /\ resp'.request = Some(request)
    /\ d \in DOMAIN documents

OthersUnchanged(d) ==
    /\ DOMAIN documents' = DOMAIN documents
    /\ \A e \in DOMAIN documents \ {d} : documents'[e] = documents[e]

SpecifiedFieldsOnly(old, new, request) ==
    /\ new.title = IF IsNone(request.title) THEN old.title ELSE Val(request.title)
    /\ new.content = IF IsNone(request.content) THEN old.content ELSE Val(request.content)
    /\ new.tags = IF IsNone(request.tags) THEN old.tags ELSE Val(request.tags)
    /\ new.version = IF IsNone(request.version) THEN old.version ELSE Val(request.version)
    /\ new.status = IF IsNone(request.status) THEN old.status ELSE Val(request.status)
    /\ new.doc_id = old.doc_id
    /\ new.content_type = old.content_type
    /\ new.language = old.language
    /\ new.author = old.author
    /\ new.created_at = old.created_at

\* C2 as stated: update_document changes only the fields given in the
\* request; every other field of the document (updated_at included) and
\* every other document is unchanged.
C2_Original ==
    [][\A d \in DocIds, request \in UpdateRequests :
          UpdateStep(d, request) =>
             /\ OthersUnchanged(d)
             /\ SpecifiedFieldsOnly(documents[d], documents'[d], request)
             /\ documents'[d].updated_at = documents[d].updated_at]_vars

\* C2 amended: update_document changes only the fields given in the request
\* and updated_at; doc_id, content_type, language, author, created_at and
\* every unspecified field keep their value, every other document too.
C2_UpdateFrame ==
    [][\A d \in DocIds, request \in UpdateRequests :
          UpdateStep(d, request) =>
             /\ OthersUnchanged(d)
             /\ SpecifiedFieldsOnly(documents[d], documents'[d], request)
             /\ resp'.document = Some(documents'[d])]_vars

C2_Witness ==
    /\ resp.route = "PUT"
    /\ resp.found
    /\ ~IsNone(Val(resp.request).title)
    /\ IsNone(Val(resp.request).status)
    /\ Cardinality(DOMAIN documents) >= 2
    /\ Val(resp.document).updated_at # Val(resp.document).created_at

\* C3: once delete_document(d) has returned True, get_document(d) reports
\* not-found ever after: create_document never hands the id out again.
C3_DeletedStaysNotFound ==
    /\ \A d \in deleted : IsNone(get_document(documents, d))
    /\ (resp.route = "GET" /\ resp.doc_id \in deleted) =>
          ~resp.found /\ IsNone(resp.document)

C3_Witness ==
    /\ resp.route = "GET"
    /\ resp.doc_id \in deleted
    /\ \E e \in DOMAIN documents : e > resp.doc_id

\* C4: GET, PUT and DELETE on /api/docs/{doc_id} for an id that is not in
\* the store answer 404 "Document not found".
C4_NotFoundIs404 ==
    (resp.route \in {"GET", "PUT", "DELETE"} /\ ~resp.found) =>
        (resp.status = 404 /\ resp.detail = "Document not found")

(***************************************************************************)
(* Claims on translation                                                   *)
(***************************************************************************)
NoApiKeys == ~hf_key /\ ~google_key

HelloRequest == TranslationRequest(Hello, "en", "es", Some(""))

\* C5 as stated: with no API keys, translating "Hello" from en to es
\* returns "Hola" on every call, whatever LibreTranslate and MyMemory answer.
C5_Original ==
    (NoApiKeys /\ tresp.request = Some(HelloRequest)) =>
        tresp.translated_content = Some(<<"Hola">>)

\* C5 amended: with no API keys, a call for "Hello" en->es succeeds and
\* returns "Hola" when it misses the translation memory and neither
\* LibreTranslate nor MyMemory gives a usable answer; otherwise it returns
\* the first usable provider answer, or the text stored under its memory key.
C5_HelloFallback ==
    (NoApiKeys /\ tresp.request = Some(HelloRequest)) =>
        /\ tresp.status = 200
        /\ tresp.via \in {"dictionary", "libre", "mymemory", "memory"}
        /\ tresp.via = "dictionary" =>
              tresp.translated_content = Some(<<"Hola">>)
        /\ tresp.via \in {"libre", "mymemory"} =>
              tresp.translated_content = Some(ProviderText)
        /\ tresp.via = "memory" =>
              LET key == memory_key("en", "es", Hello)
              IN /\ key \in DOMAIN translation_memory
                 /\ tresp.translated_content =
                       Some(translation_memory[key].translated_text)

C5_Witness ==
    /\ NoApiKeys
    /\ tresp.request = Some(HelloRequest)
    /\ tresp.via = "dictionary"
    /\ tresp.translated_content = Some(<<"Hola">>)
    /\ t_count = 2

\* the text contains no key of the dictionary (case-insensitively)
NoDictionaryWord(dict, text) ==
    \A e \in 1..Len(dict), i \in 1..Len(text) : ~MatchAt(text, i, dict[e].eng)

\* the response ends a call that missed the memory and got no usable
\* provider answer, for a request from en to es
UnmappedEnEs ==
    /\ NoApiKeys
    /\ tresp.via = "dictionary"
    /\ Val(tresp.request).source_language = "en"
    /\ Val(tresp.request).target_language = "es"
    /\ NoDictionaryWord(translations[<<"en", "es">>], Val(tresp.request).content)

\* C6 as stated: an en->es phrase without dictionary words comes back as
\* "[ES] " followed by the original text.
C6_Original ==
    UnmappedEnEs =>
        tresp.translated_content =
            Some(<<"[", "ES", "]", " ">> \o Val(tresp.request).content)

\* C6 amended: an en->es phrase without dictionary words comes back as its
\* words joined by single spaces, without any prefix; the "[ES] " form is
\* returned only for a language pair that has no dictionary (fr->es).
C6_UnmappedUnchanged ==
    /\ UnmappedEnEs =>
          tresp.translated_content =
              Some(JoinSpace(Split(Val(tresp.request).content)))
    /\ (NoApiKeys /\ tresp.via = "dictionary"
          /\ Val(tresp.request).source_language = "fr"
          /\ Val(tresp.request).target_language = "es") =>
          tresp.translated_content =
              Some(<<"[", "ES", "]", " ">> \o Val(tresp.request).content)

C6_Witness ==
    /\ UnmappedEnEs
    /\ Val(tresp.request).content = XyzzyPlugh
    /\ tresp.translated_content = Some(<<"xyzzy", " ", "plugh">>)

(***************************************************************************)
(* Claims on drift detection                                               *)
(***************************************************************************)
\* the last response reports code_file with the given drift_type
Reported(code_file, drift_type) ==
    \E j \in 1..Len(dresp.drifted_files) :
        /\ dresp.drifted_files[j].file_path = code_file
        /\ dresp.drifted_files[j].drift_type = drift_type

\* no file with the same base name and extension .md, .rst or .txt exists
NoSiblingDoc(code_file) ==
    \A ext \in {".md", ".rst", ".txt"} :
        ~Exists(fs, Path(code_file.dir, code_file.stem, ext))

\* C7 as stated: every code file of the request without a sibling
\* documentation file is reported with drift_type "missing".
C7_Original ==
    \A i \in 1..Len(dresp.code_files) :
        NoSiblingDoc(dresp.code_files[i]) =>
            Reported(dresp.code_files[i], "missing")

\* none of the five candidate documentation files exists
NoCandidateDoc(code_file) ==
    /\ NoSiblingDoc(code_file)
    /\ ~Exists(fs, Path("", "README", ".md"))
    /\ ~Exists(fs, Path("docs/", code_file.stem, ".md"))

\* C7 amended: every code file of the request that exists, and for which
\* neither a sibling documentation file nor README.md nor
\* docs/<base name>.md exists, is reported with drift_type "missing", once
\* per occurrence in the request; no other file is reported "missing".
C7_MissingDoc ==
    /\ \A i \in 1..Len(dresp.code_files) :
          (Exists(fs, dresp.code_files[i]) /\ NoCandidateDoc(dresp.code_files[i]))
             => Reported(dresp.code_files[i], "missing")
    /\ \A j \in 1..Len(dresp.drifted_files) :
          dresp.drifted_files[j].drift_type = "missing" =>
             /\ Exists(fs, dresp.drifted_files[j].file_path)
             /\ NoCandidateDoc(dresp.drifted_files[j].file_path)
    /\ Cardinality({j \in 1..Len(dresp.drifted_files) :
                       dresp.drifted_files[j].drift_type = "missing"})
         = Cardinality({i \in 1..Len(dresp.code_files) :
                           /\ Exists(fs, dresp.code_files[i])
                           /\ NoCandidateDoc(dresp.code_files[i])})

C7_Witness ==
    /\ Len(dresp.code_files) = 2
    /\ dresp.code_files[2] = FileA
    /\ Exists(fs, FileA)
    /\ NoCandidateDoc(FileA)
    /\ Reported(FileA, "missing")
    /\ Exists(fs, FileB)

\* C8: a code file whose documentation file is more than 86400 s older than
\* the code file is reported "outdated"; a code file whose documentation
\* file is at most 86400 s older is not.
C8_OutdatedAfterOneDay ==
    \A i \in 1..Len(dresp.code_files) :
        LET code_file == dresp.code_files[i]
            doc_file == find_corresponding_doc(fs, code_file)
        IN (Exists(fs, code_file) /\ ~IsNone(doc_file)) =>
              /\ fs[code_file] - fs[Val(doc_file)] > 86400
                    => Reported(code_file, "outdated")
              /\ fs[code_file] - fs[Val(doc_file)] <= 86400
                    => ~Reported(code_file, "outdated")

C8_Witness ==
    /\ dresp.code_files = <<FileB, FileA>>
    /\ Exists(fs, FileA) /\ Exists(fs, FileB)
    /\ Exists(fs, Path("src/", "a", ".md"))
    /\ Exists(fs, Path("", "README", ".md"))
    /\ fs[FileA] - fs[Path("src/", "a", ".md")] = 86401
    /\ fs[FileB] - fs[Path("", "README", ".md")] = 86400
    /\ Reported(FileA, "outdated")
    /\ ~Reported(FileB, "outdated")

(***************************************************************************)
(* Claims on the summarisation fallback                                    *)
(***************************************************************************)
\* C9: for every text and every summary_type, the summary returned by
\* _fallback_summary has at most as many characters as the text.
C9_SummaryNotLonger ==
    \A t \in SummaryTypes :
        ~IsNone(s_out[t]) => CharLen(Val(s_out[t])) <= CharLen(s_text)

\* the number of sentences in a summary: its non-blank "."-separated pieces
SentenceCount(summary) == Len(StripNonEmpty(SplitOn(summary, ".")))

\* C10: for a text of more than 10 "."-separated sentences, the summary has
\* strictly fewer sentences for "brief" than for "comprehensive", and
\* strictly fewer for "comprehensive" than for "detailed".
C10_BriefComprehensiveDetailed ==
    (/\ Len(SplitOn(s_text, ".")) > 10
     /\ ~IsNone(s_out["brief"])
     /\ ~IsNone(s_out["comprehensive"])
     /\ ~IsNone(s_out["detailed"])) =>
        /\ SentenceCount(Val(s_out["brief"]))
             < SentenceCount(Val(s_out["comprehensive"]))
        /\ SentenceCount(Val(s_out["comprehensive"]))
             < SentenceCount(Val(s_out["detailed"]))

(***************************************************************************)
(* Claims on concurrent requests, the provider chain and the memory        *)
(***************************************************************************)
\* the source language translate_content works with
ActualSource(request) ==
    IF request.source_language = "auto"
    THEN simple_language_detection(request.content)
    ELSE request.source_language

TripleOf(request) ==
    <<ActualSource(request), request.target_language, request.content>>

KeyOf(triple) == memory_key(triple[1], triple[2], triple[3])

\* C11: when all the requests received so far were for one and the same
\* (source, target, content), all were answered with status 200 and none is
\* still running, the usage_count of the entry is the number of those
\* requests (2 for two requests), however the requests interleaved.
C11_ConcurrentCountsBoth ==
    \A t \in DOMAIN served :
        (inflight = EmptyBag /\ served[t] = t_count) =>
            /\ KeyOf(t) \in DOMAIN translation_memory
            /\ translation_memory[KeyOf(t)].usage_count = served[t]

\* position of a provider call in Chain
ChainIndex(at) == CHOOSE i \in 1..Len(Chain) : Chain[i] = at

\* the provider calls of a request so far follow Chain: positions strictly
\* increase, no call that the keys allow is skipped, and no call was made
\* after a usable answer
FollowsChain(contacted, source, target) ==
    /\ \A i \in 1..Len(contacted) :
          /\ Called(ChainIndex(contacted[i].at), source, target)
          /\ i < Len(contacted) =>
                /\ ~contacted[i].usable
                /\ ChainIndex(contacted[i + 1].at) =
                      NextCall(ChainIndex(contacted[i].at) + 1, source, target)
    /\ contacted # << >> =>
          ChainIndex(contacted[1].at) = NextCall(1, source, target)

\* the providers as the claim names them
NamedProvider(at) ==
    CASE at \in {"libre1", "libre2", "libre3"} -> "LibreTranslate"
      [] at \in {"ai", "general1", "general2", "general3"} -> "AI generation model"
      [] at = "hf" -> "Hugging Face"
      [] at = "google" -> "Google"
      [] at = "mymemory" -> "MyMemory"

\* C12 as stated: the calls follow the chain, and no provider is contacted
\* more than once for one request.
C12_Original ==
    tresp.contacted # << >> =>
        /\ FollowsChain(tresp.contacted, ActualSource(Val(tresp.request)),
                        Val(tresp.request).target_language)
        /\ \A i, j \in 1..Len(tresp.contacted) :
              i < j => NamedProvider(tresp.contacted[i].at) #
                       NamedProvider(tresp.contacted[j].at)

\* C12 amended: for every request, running or answered, the provider calls
\* are made in the order of Chain (Hugging Face translation model, Google,
\* the three LibreTranslate instances, MyMemory, the Hugging Face model of
\* the AI step, its three generation models), each call at most once and
\* none skipped that the keys allow; the calls stop at the first usable
\* answer, which is the response; without a usable answer the response is the
\* dictionary fallback, reached at the end of the chain or at an exception
\* of the AI step's first call.
C12_LinearChain ==
    /\ \A call \in BagToSet(inflight) :
          /\ FollowsChain(call.contacted, call.source,
                          call.request.target_language)
          /\ \A i \in 1..Len(call.contacted) : ~call.contacted[i].usable
          /\ call.pc = NextCall(IF call.contacted = << >> THEN 1
                                ELSE ChainIndex(call.contacted[
                                        Len(call.contacted)].at) + 1,
                                call.source, call.request.target_language)
    /\ tresp.contacted # << >> =>
          LET request == Val(tresp.request)
              source == ActualSource(request)
              target == request.target_language
              last == tresp.contacted[Len(tresp.contacted)]
          IN /\ FollowsChain(tresp.contacted, source, target)
             /\ tresp.status = 200 =>
                   IF last.usable
                   THEN /\ tresp.via = Provider(last.at)
                        /\ tresp.translated_content = Some(ProviderText)
                   ELSE /\ tresp.via = "dictionary"
                        /\ tresp.translated_content =
                              Some(enhanced_fallback_translate(
                                      request.content, source, target))
                        /\ \/ NextCall(ChainIndex(last.at) + 1, source, target)
                                 > Len(Chain)
                           \/ last.at = "ai"

\* a request was answered by the second LibreTranslate instance after the
\* first gave no usable answer
C12_Witness ==
    /\ tresp.status = 200
    /\ tresp.via = "libre"
    /\ Len(tresp.contacted) = 2
    /\ tresp.contacted[1] = [at |-> "libre1", usable |-> FALSE]
    /\ tresp.contacted[2] = [at |-> "libre2", usable |-> TRUE]

\* C13: the usage_count of the entry of a triple is the number of requests
\* answered with status 200 for that triple, and every such request after
\* the first is answered from the memory without contacting a provider.
C13_MemoryIsCache ==
    /\ \A t \in DOMAIN served :
          /\ KeyOf(t) \in DOMAIN translation_memory
          /\ translation_memory[KeyOf(t)].usage_count = served[t]
    /\ (tresp.status = 200 /\ served[TripleOf(Val(tresp.request))] > 1) =>
          /\ tresp.via = "memory"
          /\ tresp.contacted = << >>

\* both languages of the request are supported
Supported(request) ==
    /\ ActualSource(request) \in supported_languages
    /\ request.target_language \in supported_languages

\* C19: every answered request with supported languages got status 200 and
\* a translated_content, whatever the providers answered.
C19_AlwaysTranslates ==
    (~IsNone(tresp.request) /\ Supported(Val(tresp.request))) =>
        /\ tresp.status = 200
        /\ ~IsNone(tresp.translated_content)

\* C20: every answered request with an unsupported language got status 400.
C20_Unsupported400 ==
    (~IsNone(tresp.request) /\ ~Supported(Val(tresp.request))) =>
        tresp.status = 400

(***************************************************************************)
(* Claims on the MCP client                                                *)
(***************************************************************************)
\* the last call could not get a context from the server: MCP is disabled,
\* the request threw, or the server answered with a status other than 200
NoServerContext ==
    \/ ~m_enabled
    \/ m_call.server.kind = "exception"
    \/ m_call.server.kind = "response" /\ m_call.server.status # 200

LocalContext ==
    Some(generate_document_aware_context(m_call.query, m_call.context_type,
            m_call.document_content, m_call.document_title))

C15_OwnHandler ==
    /\ r_resp.path = Some(<<"health">>) =>
          r_resp.handler = "docs_health_check" /\ r_resp.status = 200
    /\ r_resp.path = Some(<<"templates">>) =>
          r_resp.handler = "get_document_templates" /\ r_resp.status = 200
    /\ r_resp.path = Some(<<"stats">>) =>
          r_resp.handler = "get_document_stats" /\ r_resp.status = 200

C17_AppendOnly ==
    [][/\ Len(notifications) = n_calls
       /\ Len(notifications') = n_calls'
       /\ Len(notifications') = Len(notifications) + 1
       /\ SubSeq(notifications', 1, Len(notifications)) = notifications
       /\ notifications'[Len(notifications')].status = "pending"]_vars

\* two calls with the same component name and timestamp left two records
\* with the same notification_id
C17_Witness ==
    /\ n_calls = 2
    /\ Len(notifications) = 2
    /\ notifications[1].notification_id = notifications[2].notification_id
    /\ notifications[1].change_type # notifications[2].change_type

(***************************************************************************)
(* Claims on the Python parser                                             *)
(***************************************************************************)
\* C18: parse_python never raises; for a source with a syntax error the
\* result has the key "error"; for a valid source (one that ast.parse
\* accepts) it has functions, classes, imports and complexity_score and no
\* key "error".
C18_ErrorDictOnlyOnSyntaxError ==
    ~IsNone(parse_code) =>
        LET code == Val(parse_code)
            result == Val(parse_result)
        IN /\ result.kind = "return"
           /\ ~code.wellformed => "error" \in result.value.keys
           /\ (code.wellformed /\ code.nesting # "too deep") =>
                 result.value.keys =
                    {"functions", "classes", "imports", "complexity_score"}

(***************************************************************************)
(* Further claims on the document store                                    *)
(***************************************************************************)
\* C22: the id returned by a create_document differs from every id returned
\* before, stored or deleted since, and doc_counter is never below the
\* number of stored documents.
C22_IdsNeverReused ==
    [][/\ doc_counter' # doc_counter =>
             /\ resp'.doc_id \notin (DOMAIN documents \cup deleted)
             /\ resp'.doc_id \in DOMAIN documents'
       /\ doc_counter' >= Cardinality(DOMAIN documents')]_vars

\* a document was created after another one had been deleted
C22_Witness ==
    /\ resp.route = "POST"
    /\ deleted # {}
    /\ resp.doc_id \notin deleted
    /\ resp.doc_id \in DOMAIN documents
    /\ doc_counter > Cardinality(DOMAIN documents)

\* C23: update_document and delete_document for an id that is not stored
\* return None and False and leave the store and doc_counter unchanged.
C23_MissingIdNoEffect ==
    [][(resp'.route \in {"PUT", "DELETE"}
          /\ resp'.doc_id \notin DOMAIN documents) =>
            /\ ~resp'.found
            /\ IsNone(resp'.document)
            /\ documents' = documents
            /\ doc_counter' = doc_counter]_vars

\* a delete for an id that is not stored was answered while another
\* document is stored
C23_Witness ==
    /\ resp.route = "DELETE"
    /\ ~resp.found
    /\ resp.doc_id \notin DOMAIN documents
    /\ resp.doc_id \notin deleted
    /\ documents # << >>

(***************************************************************************)
(* Claims on the document search                                           *)
(***************************************************************************)
\* the documents, of those stored when the search ran, that match the
\* request's query and filters
SearchMatches(request) ==
    {d \in DOMAIN sresp.searched :
        search_match(sresp.searched[d], request.query, request.language,
                     request.tags, request.content_type)}

\* C24: for every limit, 0 and negative values included, search_documents
\* returns at most `limit` documents (none for a limit below 1); each returned document satisfies the
\* filters and contains the query case-insensitively; the results are
\* ordered by updated_at descending; and `total` is the number of documents
\* that match the query and the filters.
C24_SearchContract ==
    ~IsNone(sresp.request) =>
        LET request == Val(sresp.request)
            results == sresp.results
        IN /\ sresp.status = 200
           /\ Len(results) <= (IF request.limit > 0 THEN request.limit ELSE 0)
           /\ \A i \in 1..Len(results) :
                 /\ results[i].doc_id \in SearchMatches(request)
                 /\ sresp.searched[results[i].doc_id] = results[i]
           /\ \A i, j \in 1..Len(results) :
                 i < j => results[i].updated_at >= results[j].updated_at
           /\ sresp.total = Cardinality(SearchMatches(request))

\* the parts of C24 taken one at a time
C24_AtMostLimit ==
    ~IsNone(sresp.request) =>
        Len(sresp.results) <= (IF Val(sresp.request).limit > 0
                               THEN Val(sresp.request).limit ELSE 0)

C24_TotalIsMatchCount ==
    ~IsNone(sresp.request) =>
        sresp.total = Cardinality(SearchMatches(Val(sresp.request)))

C24_ResultsMatchSorted ==
    ~IsNone(sresp.request) =>
        LET request == Val(sresp.request)
            results == sresp.results
        IN /\ sresp.status = 200
           /\ \A i \in 1..Len(results) :
                 /\ results[i].doc_id \in SearchMatches(request)
                 /\ sresp.searched[results[i].doc_id] = results[i]
           /\ \A i, j \in 1..Len(results) :
                 i < j => results[i].updated_at >= results[j].updated_at

(***************************************************************************)
(* Claims on the onboarding routes                                         *)
(***************************************************************************)
\* C21: complete-step validates before mutating: an unknown tutorial_id is
\* answered 404 'Tutorial not found', a step_id that is no step of the
\* tutorial 400 'Invalid step ID', and in both cases no progress record is
\* created or changed.
C21_ValidatesBeforeMutating ==
    [][o_resp'.route = "complete-step" =>
         LET tutorial == get_tutorial(o_resp'.tutorial_id)
         IN /\ IsNone(tutorial) =>
                 /\ o_resp'.status = 404
                 /\ o_resp'.detail = "Tutorial not found"
                 /\ user_progress' = user_progress
            /\ (/\ ~IsNone(tutorial)
                /\ ~\E i \in 1..Len(Val(tutorial).steps) :
                       Val(tutorial).steps[i] = o_resp'.step_id) =>
                 /\ o_resp'.status = 400
                 /\ o_resp'.detail = "Invalid step ID"
                 /\ user_progress' = user_progress]_vars

\* the part of C21 on the progress records alone
C21_RejectedLeavesProgress ==
    [][(o_resp'.route = "complete-step" /\ o_resp'.status # 200) =>
          user_progress' = user_progress]_vars

\* the steps of the tutorial a progress record belongs to
StepsOf(progress) == tutorials[progress.tutorial_id].steps

NoDuplicate(list) ==
    \A i, j \in 1..Len(list) : list[i] = list[j] => i = j

\* C25: after any sequence of complete-step requests, every progress
\* record's completed_steps has no duplicate and holds only step ids of its
\* tutorial, so that completed_steps <= total_steps and the percentage of
\* the progress response is within 0..100; and completing a step that is
\* already completed leaves completed_steps unchanged.
C25_ProgressInvariant ==
    [][/\ \A key \in DOMAIN user_progress' :
             LET progress == user_progress'[key]
                 response == ProgressResponse(progress.tutorial_id,
                                 tutorials[progress.tutorial_id], Some(progress))
             IN /\ progress.tutorial_id \in DOMAIN tutorials
                /\ key = progress_key(progress.user_id, progress.tutorial_id)
                /\ NoDuplicate(progress.completed_steps)
                /\ \A i \in 1..Len(progress.completed_steps) :
                      \E j \in 1..Len(StepsOf(progress)) :
                          StepsOf(progress)[j] = progress.completed_steps[i]
                /\ response.completed_steps <= response.total_steps
                /\ response.progress_percentage \in 0..100
       /\ (o_resp'.route = "progress" /\ o_resp'.status = 200) =>
             /\ Val(o_resp'.body).completed_steps <= Val(o_resp'.body).total_steps
             /\ Val(o_resp'.body).progress_percentage \in 0..100
       /\ (/\ p_last'.count = p_last.count + 1
           /\ progress_key(o_resp'.user_id, o_resp'.tutorial_id)
                 \in DOMAIN user_progress) =>
             LET key == progress_key(o_resp'.user_id, o_resp'.tutorial_id)
                 before == user_progress[key].completed_steps
             IN (\E i \in 1..Len(before) : before[i] = o_resp'.step_id) =>
                   user_progress'[key].completed_steps = before]_vars

\* a step was completed a second time
C25_Witness ==
    /\ o_resp.route = "complete-step" /\ o_resp.status = 200
    /\ p_last.count = 2
    /\ DOMAIN user_progress
          = {progress_key(o_resp.user_id, o_resp.tutorial_id)}
    /\ \A key \in DOMAIN user_progress :
          user_progress[key].completed_steps = <<o_resp.step_id>>

\* the completed steps of the user and tutorial the last response is about
CompletedOf(user_id, tutorial_id) ==
    LET progress == get_user_progress(user_progress, user_id, tutorial_id)
    IN IF IsNone(progress) THEN << >> ELSE Val(progress).completed_steps

Completed(list, step_id) == \E i \in 1..Len(list) : list[i] = step_id

\* C26: in the progress response next_step is the first step in tutorial
\* order that is not in completed_steps, and "" exactly when all steps are
\* completed; current_step is the step of the most recent complete-step
\* request of that user for that tutorial, which may come later in tutorial
\* order than next_step.
C26_NextAndCurrentStep ==
    (o_resp.route = "progress" /\ o_resp.status = 200) =>
        LET body == Val(o_resp.body)
            steps == tutorials[o_resp.tutorial_id].steps
            completed == CompletedOf(o_resp.user_id, o_resp.tutorial_id)
            all == \A i \in 1..Len(steps) : Completed(completed, steps[i])
        IN /\ (body.next_step = "") <=> all
           /\ ~all =>
                 \E i \in 1..Len(steps) :
                    /\ body.next_step = steps[i]
                    /\ ~Completed(completed, steps[i])
                    /\ \A j \in 1..(i - 1) : Completed(completed, steps[j])
           /\ <<o_resp.user_id, o_resp.tutorial_id>> \in DOMAIN o_hist =>
                 body.current_step = o_hist[<<o_resp.user_id, o_resp.tutorial_id>>]

\* the last step was completed first: current_step comes after next_step
C26_Witness ==
    /\ o_resp.route = "progress" /\ o_resp.status = 200
    /\ Val(o_resp.body).current_step = "maintenance"
    /\ Val(o_resp.body).next_step = "drift-detection"

\* all steps are completed
C26_WitnessAll ==
    /\ o_resp.route = "progress" /\ o_resp.status = 200
    /\ Val(o_resp.body).next_step = ""
    /\ Val(o_resp.body).progress_percentage = 100

\* C27: total_users of the onboarding health endpoint is the number of
\* distinct user_ids with at least one progress record, also for user_ids
\* that contain "_".
C27_TotalUsers ==
    o_resp.route = "health" =>
        Val(o_resp.body).total_users
            = Cardinality({pair[1] : pair \in DOMAIN o_hist})

(***************************************************************************)
(* Claims on the change notifications of the maintenance router            *)
(***************************************************************************)
\* C28: POST /notify-change answers with the data of the notification it
\* has just added: affected_docs and action_required are those computed for
\* the request's file_path, also when an earlier notification with the same
\* notification_id and another file_path is in the list.
C28_AnswersOwnNotification ==
    ~IsNone(n_resp.request) =>
        /\ n_resp.status = 200
        /\ Val(n_resp.body).affected_docs
               = find_affected_docs(fs, Val(n_resp.request))
        /\ Val(n_resp.body).action_required
               = (Len(find_affected_docs(fs, Val(n_resp.request))) > 0)

\* the commits received so far, as (request, commit) positions in w_log
CommitsReceived ==
    UNION {{<<r, c>> : c \in 1..Len(Val(w_log[r].commits))} :
              r \in {q \in 1..Len(w_log) : ~IsNone(w_log[q].commits)}}

CommitAt(rc) == Val(w_log[rc[1]].commits)[rc[2]]

\* the number of received commits that list the path in added, modified or
\* removed
Expected(path) ==
    Cardinality({rc \in CommitsReceived : Listed(file_changes(CommitAt(rc)), path)})

\* the number of times the path occurs in modified + added + removed of the
\* received commits
Occurrences(path) ==
    Cardinality(UNION {{<<rc, i>> : i \in {j \in 1..Len(file_changes(CommitAt(rc))) :
                                              file_changes(CommitAt(rc))[j] = path}} :
                          rc \in CommitsReceived})

\* the number of notifications produced for the path
Produced(path) ==
    Cardinality({i \in 1..Len(notifications) : notifications[i].file_path = path})

\* every notification has the change_type of a received commit that lists
\* its path: 'added' if the path is in added, 'deleted' if it is in removed,
\* 'modified' otherwise
ChangeTypesRight ==
    \A i \in 1..Len(notifications) :
        \E rc \in CommitsReceived :
            /\ Listed(file_changes(CommitAt(rc)), notifications[i].file_path)
            /\ notifications[i].change_type =
                  IF Listed(CommitAt(rc).added, notifications[i].file_path)
                  THEN "added"
                  ELSE IF Listed(CommitAt(rc).removed, notifications[i].file_path)
                  THEN "deleted"
                  ELSE "modified"

\* a notification is added only once a response has been returned
AfterResponse ==
    [][notifications' # notifications => w_resp.status = 200]_vars

WebhookPaths == {FileA, FileB}

\* C29: for every commit of the payload, each file path listed in added,
\* modified or removed eventually produces exactly one notification, after
\* the 'webhook processed' response is returned, with change_type 'added'
\* if the path is in added, 'deleted' if it is in removed and 'modified'
\* otherwise; a payload without 'commits' produces none.
C29_OnePerListedPath ==
    /\ [](\A path \in WebhookPaths : Produced(path) <= Expected(path))
    /\ []ChangeTypesRight
    /\ AfterResponse
    /\ \A path \in WebhookPaths : \A n \in 1..(MaxWebhooks * MaxCommits) :
          (Expected(path) >= n) ~> (Produced(path) >= n)

\* the part of C29 that fails: never more notifications than listed paths
C29_AtMostOne ==
    \A path \in WebhookPaths : Produced(path) <= Expected(path)

\* the same with one notification for every occurrence of a path in
\* modified + added + removed
C29_OnePerOccurrence ==
    /\ [](\A path \in WebhookPaths : Produced(path) <= Occurrences(path))
    /\ []ChangeTypesRight
    /\ AfterResponse
    /\ \A path \in WebhookPaths : \A n \in 1..(3 * MaxWebhooks * MaxCommits) :
          (Occurrences(path) >= n) ~> (Produced(path) >= n)

====
